---- MODULE Spec2Model ----
(***************************************************************************)
(* Model of the colour extraction engine of design-scout-agent             *)
(* (src/src/analyzers/color-extractor.ts, class ColorExtractor).           *)
(*                                                                         *)
(* A decoded image is a sequence of pixels <<r, g, b>> (sharp's raw        *)
(* buffer read `channels` bytes at a time; an alpha byte is never read).   *)
(* A JavaScript Map is a sequence of entries in insertion order.  A        *)
(* frequency is an exact rational [num, den] in lowest terms; HSL values   *)
(* are computed in exact arithmetic with Math.round = floor(x + 1/2).      *)
(* The pixel values used below have no rounding tie, so the exact values   *)
(* are the values the IEEE doubles of the program give.                    *)
(***************************************************************************)
EXTENDS Integers, Sequences, FiniteSets, TLC

VARIABLES
  colorBucketSize,  \* this.colorBucketSize, set by the constructor
  op,               \* the method under way
  sources,          \* its argument: the list of sources (one for a single extraction)
  countArg,         \* the count argument of getDominantColors
  pc,               \* "start", "loop" (inside extractFromMultiple's for), "done"
  idx,              \* position of extractFromMultiple's for loop in sources
  allColors,        \* extractFromMultiple's allColors
  dominant,         \* <<value>> returned by a direct getDominantColors call
  result,           \* <<value>> once the method has returned, <<>> before
  calls,            \* history: how often each private method has been called
  firstRun          \* <<outcome>> of an earlier, equal call on the same engine

engineVars ==
  <<colorBucketSize, op, sources, countArg, pc, idx, allColors, dominant, result, calls,
    firstRun>>

\* DesignStore (src/src/storage/design-store.ts).
VARIABLES
  defaultStore,     \* the objects the module constant DEFAULT_STORE refers to
  storeData,        \* this.data: <<>> for null, else <<the StoreData object>>
  saveDebounce,     \* this.saveDebounce: "null", or a timer "pending", "fired" or "cleared"
  timers,           \* number of timers set and neither cleared nor fired
  memVersion,       \* history: number of changes made to the data in memory
  fileVersion,      \* history: memVersion of the content of designs.json, -1 without file
  fileContent,      \* what the last write put into designs.json, <<>> without file
  returned,         \* what the last operation returned
  opsDone           \* number of operations done

storeVars ==
  <<defaultStore, storeData, saveDebounce, timers, memVersion, fileVersion, fileContent,
    returned, opsDone>>

\* DesignScoutAgent (src/src/agents/design-scout-agent.ts).
VARIABLES
  storeInitialized, \* this.storeInitialized
  initCalls,        \* history: number of invocations of this.store.init()
  tasks,            \* the storage operations started on the agent: each its method and position
  collectedItems,   \* this.collectedItems.length
  active,           \* <<>>, or <<the run() call in progress: its arguments and position>>
  events,           \* history: the methods and generators entered by the last call
  results           \* history: each settled call with its arguments and outcome

agentVars == <<storeInitialized, initCalls, tasks, collectedItems, active, events, results>>

\* The variables of the pipeline methods of the agent.
pipelineVars == <<collectedItems, active, events, results>>

\* BaseCollector.fetchWithRetry (src/unnamed/part_000).
VARIABLES
  retries,          \* the retries argument
  retryIndex,       \* the loop variable i
  fetchPc,          \* "loop", "fetch", "delay", "returned" or "thrown"
  responses,        \* history: what each fetch attempt ended in
  delays,           \* history: the milliseconds of each call of this.delay
  fetchResult       \* what the call returned or threw, <<>> before

fetchVars == <<retries, retryIndex, fetchPc, responses, delays, fetchResult>>

\* The variables of the other components and of the second run.
otherVars == <<firstRun, storeVars, agentVars, fetchVars>>

\* The variables a DesignStore leaves alone.
notStoreVars == <<engineVars, agentVars, fetchVars>>

\* The variables a DesignScoutAgent leaves alone.
notAgentVars == <<engineVars, storeVars, fetchVars>>

\* The variables fetchWithRetry leaves alone.
notFetchVars == <<engineVars, storeVars, agentVars>>

vars ==
  <<colorBucketSize, op, sources, countArg, pc, idx, allColors, dominant, result, calls,
    otherVars>>

(***************************************************************************)
(* Bounds of the model.                                                    *)
(***************************************************************************)
MaxRuns == 3
MaxRunLen == 2
MaxSources == 2
MaxCount == 2
MaxOps == 3

\* Program constants.
DefaultBucketSize == 16
DominantCount == 10
HistoryLimit == 100

(***************************************************************************)
(* Arithmetic helpers.                                                     *)
(***************************************************************************)
Abs(x) == IF x < 0 THEN -x ELSE x

Min(a, b) == IF a < b THEN a ELSE b

Max3(a, b, c) ==
  IF a >= b /\ a >= c THEN a ELSE IF b >= c THEN b ELSE c

Min3(a, b, c) ==
  IF a <= b /\ a <= c THEN a ELSE IF b <= c THEN b ELSE c

RECURSIVE GCD(_, _)
GCD(a, b) == IF b = 0 THEN a ELSE GCD(b, a % b)

\* The rational n/d (d > 0, n >= 0) in lowest terms.
Rat(n, d) == LET g == GCD(n, d) IN [num |-> n \div g, den |-> d \div g]

RatAdd(p, q) == Rat(p.num * q.den + q.num * p.den, p.den * q.den)

RatDivInt(p, k) == Rat(p.num, p.den * k)

RatLess(p, q) == p.num * q.den < q.num * p.den

\* Math.round(p / q) for q > 0: the nearest integer, halves rounded up.
Round(p, q) == (2 * p + q) \div (2 * q)

RECURSIVE SumSeq(_)
SumSeq(s) == IF s = <<>> THEN 0 ELSE Head(s) + SumSeq(Tail(s))

RECURSIVE Flatten(_)
Flatten(ss) == IF ss = <<>> THEN <<>> ELSE Head(ss) \o Flatten(Tail(ss))

\* The comparators of the program's sorts, as "key(a) < key(b)":
\* (a, b) => b.frequency - a.frequency and (a, b) => b.hsl.s - a.hsl.s.
KeyLess(by, a, b) ==
  IF by = "frequency" THEN RatLess(a.frequency, b.frequency)
  ELSE a.hsl.s < b.hsl.s

\* Array.prototype.sort with a comparator (a, b) => key(b) - key(a):
\* a stable sort by descending key (insertion keeps equal keys in order).
RECURSIVE InsertDesc(_, _, _)
InsertDesc(sorted, x, by) ==
  IF sorted = <<>> THEN <<x>>
  ELSE IF KeyLess(by, Head(sorted), x) THEN <<x>> \o sorted
  ELSE <<Head(sorted)>> \o InsertDesc(Tail(sorted), x, by)

RECURSIVE SortDesc(_, _)
SortDesc(s, by) ==
  IF s = <<>> THEN <<>>
  ELSE InsertDesc(SortDesc(SubSeq(s, 1, Len(s) - 1), by), s[Len(s)], by)

\* Array.prototype.slice(from, to) with 0-based, end-exclusive indices.
Slice(s, from, to) == SubSeq(s, from + 1, Min(to, Len(s)))

\* Circular hue distance: min(|h1 - h2|, 360 - |h1 - h2|).
HueDist(h1, h2) == Min(Abs(h1 - h2), 360 - Abs(h1 - h2))

(***************************************************************************)
(* Colour-space conversions.                                               *)
(***************************************************************************)
HexDigit(n) ==
  <<"0", "1", "2", "3", "4", "5", "6", "7",
    "8", "9", "A", "B", "C", "D", "E", "F">>[n + 1]

\* x.toString(16).padStart(2, '0'), upper-cased, for x in 0..255.
Hex2(x) == HexDigit(x \div 16) \o HexDigit(x % 16)

rgbToHex(r, g, b) == "#" \o Hex2(r) \o Hex2(g) \o Hex2(b)

\* With channels scaled by 255: l = (max+min)/510, d = (max-min)/255,
\* l > 0.5 iff max + min > 255, and the 255 cancels in s and h.
rgbToHsl(r, g, b) ==
  LET max == Max3(r, g, b)
      min == Min3(r, g, b)
      d   == max - min
      l   == Round(100 * (max + min), 510)
  IN  IF max = min THEN [h |-> 0, s |-> 0, l |-> l]
      ELSE
        LET s == IF max + min > 255 THEN Round(100 * d, 510 - max - min)
                                    ELSE Round(100 * d, max + min)
            h == IF max = r
                   THEN Round(60 * (g - b) + (IF g < b THEN 360 * d ELSE 0), d)
                 ELSE IF max = g
                   THEN Round(60 * (b - r) + 120 * d, d)
                 ELSE Round(60 * (r - g) + 240 * d, d)
        IN  [h |-> h, s |-> s, l |-> l]

getColorName(hsl) ==
  IF hsl.s < 10
    THEN IF hsl.l < 20 THEN "black" ELSE IF hsl.l > 80 THEN "white" ELSE "gray"
  ELSE IF hsl.h < 15 \/ hsl.h >= 345 THEN "red"
  ELSE IF hsl.h < 45 THEN "orange"
  ELSE IF hsl.h < 75 THEN "yellow"
  ELSE IF hsl.h < 150 THEN "green"
  ELSE IF hsl.h < 210 THEN "cyan"
  ELSE IF hsl.h < 270 THEN "blue"
  ELSE IF hsl.h < 315 THEN "purple"
  ELSE "pink"

(***************************************************************************)
(* Quantizer.                                                              *)
(***************************************************************************)
\* Mutant of Bucket: the channel is left as it is, not floored.
BucketUnquantized(v, bucketSize) == v

\* Math.floor(v / bucketSize) * bucketSize, for bucketSize # 0; v / b and
\* (-v) / (-b) are the same number.
Bucket(v, bucketSize) ==
  IF bucketSize > 0 THEN (v \div bucketSize) * bucketSize
  ELSE ((0 - v) \div (0 - bucketSize)) * bucketSize

QuantKey(px, bucketSize) ==
  <<Bucket(px[1], bucketSize), Bucket(px[2], bucketSize), Bucket(px[3], bucketSize)>>

\* Mutant of Skipped: the brightness of the pixel as read, not of its
\* quantized channels.
SkippedByPixelMean(px, bucketSize) ==
  px[1] + px[2] + px[3] < 3 * 10 \/ px[1] + px[2] + px[3] > 3 * 245

\* The `continue` of the loop: brightness = (r + g + b) / 3 of the
\* quantized channels, skipped when < 10 or > 245.
Skipped(px, bucketSize) ==
  LET k == QuantKey(px, bucketSize)
      total == k[1] + k[2] + k[3]
  IN  total < 3 * 10 \/ total > 3 * 245

\* colorMap.set(key, (colorMap.get(key) || 0) + 1)
MapIncr(colorMap, key) ==
  IF \E j \in 1..Len(colorMap) : colorMap[j].key = key
    THEN [j \in 1..Len(colorMap) |->
            IF colorMap[j].key = key
              THEN [colorMap[j] EXCEPT !.n = @ + 1]
              ELSE colorMap[j]]
    ELSE Append(colorMap, [key |-> key, n |-> 1])

RECURSIVE quantizeFrom(_, _, _)
quantizeFrom(colorMap, data, bucketSize) ==
  IF data = <<>> THEN colorMap
  ELSE IF Skipped(Head(data), bucketSize)
    THEN quantizeFrom(colorMap, Tail(data), bucketSize)
  ELSE quantizeFrom(MapIncr(colorMap, QuantKey(Head(data), bucketSize)),
                    Tail(data), bucketSize)

quantizeColors(data, bucketSize) == quantizeFrom(<<>>, data, bucketSize)

(***************************************************************************)
(* Dominant-colour selector.                                               *)
(***************************************************************************)
\* hueDiff > minHueDiff (30) or lightness difference > 20
Diverse(c, e) ==
  HueDist(c.hsl.h, e.hsl.h) > 30 \/ Abs(c.hsl.l - e.hsl.l) > 20

\* Mutant of diversityLoop: diverse.some in place of diverse.every.
RECURSIVE diversityLoopSome(_, _, _, _)
diversityLoopSome(colors, count, i, diverse) ==
  IF i > Len(colors) \/ Len(diverse) >= count THEN diverse
  ELSE IF \E k \in 1..Len(diverse) : Diverse(colors[i], colors[diverse[k]])
    THEN diversityLoopSome(colors, count, i + 1, Append(diverse, i))
  ELSE diversityLoopSome(colors, count, i + 1, diverse)

\* First loop of ensureDiversity, over indices of `colors`; `diverse` is
\* the sequence of accepted indices.
RECURSIVE diversityLoop(_, _, _, _)
diversityLoop(colors, count, i, diverse) ==
  IF i > Len(colors) \/ Len(diverse) >= count THEN diverse
  ELSE IF \A k \in 1..Len(diverse) : Diverse(colors[i], colors[diverse[k]])
    THEN diversityLoop(colors, count, i + 1, Append(diverse, i))
  ELSE diversityLoop(colors, count, i + 1, diverse)

\* Second loop: fill the remaining slots in the order of `colors`.
RECURSIVE fillLoop(_, _, _, _)
fillLoop(colors, count, i, diverse) ==
  IF i > Len(colors) \/ Len(diverse) >= count THEN diverse
  ELSE IF \E k \in 1..Len(diverse) : diverse[k] = i
    THEN fillLoop(colors, count, i + 1, diverse)
  ELSE fillLoop(colors, count, i + 1, Append(diverse, i))

ensureDiversityIdx(colors, count) ==
  fillLoop(colors, count, 1, diversityLoop(colors, count, 2, <<1>>))

ensureDiversity(colors, count) ==
  IF Len(colors) <= 1 THEN colors
  ELSE LET d == ensureDiversityIdx(colors, count)
       IN  [k \in 1..Len(d) |-> colors[d[k]]]

toExtractedColor(entry, totalPixels) ==
  LET r == entry.key[1]
      g == entry.key[2]
      b == entry.key[3]
      hsl == rgbToHsl(r, g, b)
  IN  [hex |-> rgbToHex(r, g, b),
       rgb |-> [r |-> r, g |-> g, b |-> b],
       hsl |-> hsl,
       frequency |-> Rat(entry.n, totalPixels),
       name |-> getColorName(hsl)]

\* The map entries as colours, sorted by descending frequency.
rankedColors(colorMap) ==
  LET totalPixels == SumSeq([j \in 1..Len(colorMap) |-> colorMap[j].n])
      colors == [j \in 1..Len(colorMap) |-> toExtractedColor(colorMap[j], totalPixels)]
  IN  SortDesc(colors, "frequency")

getDominantColors(colorMap, count) ==
  ensureDiversity(Slice(rankedColors(colorMap), 0, count), count)

(***************************************************************************)
(* Aggregator.                                                             *)
(***************************************************************************)
\* Mutant of Similar: colours cluster by their hex key only.
SimilarSameHex(c, e) == c.hex = e.hex

\* adjustedDiff < 20 && |s1 - s2| < 20
Similar(c, e) ==
  HueDist(c.hsl.h, e.hsl.h) < 20 /\ Abs(c.hsl.s - e.hsl.s) < 20

\* colorMap.set(color.hex, {color, totalFreq: color.frequency, count: 1})
ClusterSet(clusters, color) ==
  LET fresh == [key |-> color.hex, color |-> color,
                totalFreq |-> color.frequency, count |-> 1]
  IN  IF \E j \in 1..Len(clusters) : clusters[j].key = color.hex
        THEN [j \in 1..Len(clusters) |->
                IF clusters[j].key = color.hex THEN fresh ELSE clusters[j]]
        ELSE Append(clusters, fresh)

\* One iteration of the outer loop: fold `color` into the first similar
\* cluster (the inner loop breaks at the first match), else start one.
foldColor(clusters, color) ==
  LET hits == {j \in 1..Len(clusters) : Similar(color, clusters[j].color)}
  IN  IF hits # {}
        THEN LET first == CHOOSE j \in hits : \A k \in hits : j <= k
             IN  [clusters EXCEPT
                    ![first].totalFreq = RatAdd(@, color.frequency),
                    ![first].count = @ + 1]
        ELSE ClusterSet(clusters, color)

RECURSIVE aggregateFrom(_, _)
aggregateFrom(clusters, colors) ==
  IF colors = <<>> THEN clusters
  ELSE aggregateFrom(foldColor(clusters, Head(colors)), Tail(colors))

\* Mutant of emitCluster: the accumulated total, not divided by count.
emitClusterTotal(c) == [c.color EXCEPT !.frequency = c.totalFreq]

\* {...color, frequency: totalFreq / count}
emitCluster(c) == [c.color EXCEPT !.frequency = RatDivInt(c.totalFreq, c.count)]

aggregateColors(colors) ==
  LET clusters == aggregateFrom(<<>>, colors)
  IN  SortDesc([j \in 1..Len(clusters) |-> emitCluster(clusters[j])], "frequency")

(***************************************************************************)
(* Palette synthesizer.                                                    *)
(***************************************************************************)
getDefaultPalette ==
  [primary |-> "#6366F1", secondary |-> "#8B5CF6", accent |-> "#14B8A6",
   background |-> "#FFFFFF", surface |-> "#F8FAFC",
   text |-> "#0F172A", textSecondary |-> "#64748B",
   success |-> "#22C55E", warning |-> "#F59E0B", error |-> "#EF4444",
   additionalColors |-> <<>>]

\* Index in `colors` of sorted[0], where sorted is the stable sort of the
\* colours by descending saturation.
primaryIndex(colors) ==
  LET tagged == [j \in 1..Len(colors) |-> [i |-> j, hsl |-> colors[j].hsl]]
  IN  SortDesc(tagged, "saturation")[1].i

\* Returns an index of `colors`; `color === primary` is object identity.
findSecondary(colors, primary) ==
  LET ok == {j \in 1..Len(colors) :
               /\ j # primary
               /\ LET d == HueDist(colors[j].hsl.h, colors[primary].hsl.h)
                  IN  (d >= 30 /\ d <= 60) \/ (d >= 150 /\ d <= 210)}
  IN  IF ok # {} THEN CHOOSE j \in ok : \A k \in ok : j <= k
      ELSE IF Len(colors) >= 2 THEN 2
      ELSE primary

findAccent(colors, primary, secondary) ==
  LET ok == {j \in 1..Len(colors) :
               j # primary /\ j # secondary /\ colors[j].hsl.s > 50}
  IN  IF ok # {} THEN CHOOSE j \in ok : \A k \in ok : j <= k
      ELSE IF Len(colors) >= 3 THEN 3
      ELSE secondary

\* The palette of a non-empty list of colours.
buildPalette(colors) ==
    LET primary == primaryIndex(colors)
        secondary == findSecondary(colors, primary)
        accent == findAccent(colors, primary, secondary)
        \* avgLightness < 50
        isDark == SumSeq([j \in 1..Len(colors) |-> colors[j].hsl.l]) < 50 * Len(colors)
        rest == Slice(colors, 3, 8)
    IN  [primary |-> colors[primary].hex,
         secondary |-> colors[secondary].hex,
         accent |-> colors[accent].hex,
         background |-> IF isDark THEN "#0F172A" ELSE "#FFFFFF",
         surface |-> IF isDark THEN "#1E293B" ELSE "#F8FAFC",
         text |-> IF isDark THEN "#F1F5F9" ELSE "#0F172A",
         textSecondary |-> IF isDark THEN "#94A3B8" ELSE "#64748B",
         success |-> "#22C55E", warning |-> "#F59E0B", error |-> "#EF4444",
         additionalColors |-> [j \in 1..Len(rest) |-> rest[j].hex]]

(***************************************************************************)
(* Relative luminance of the design analyzer (WCAG formula).  Channels are *)
(* linearized by a table of round(100000 * f(c / 255)) for c = 0..255,     *)
(* f(x) = x / 12.92 for x <= 0.03928 and ((x + 0.055) / 1.055) ^ 2.4       *)
(* otherwise; luminance is in units of 1 / 1000000000.                     *)
(***************************************************************************)
linearized ==
  <<
    0, 30, 61, 91, 121, 152, 182, 212, 243, 273, 304, 335,
    368, 402, 439, 478, 518, 561, 605, 651, 700, 750, 802, 857,
    913, 972, 1033, 1096, 1161, 1229, 1298, 1370, 1444, 1521, 1600, 1681,
    1764, 1850, 1938, 2029, 2122, 2217, 2315, 2416, 2519, 2624, 2732, 2843,
    2956, 3071, 3190, 3310, 3434, 3560, 3689, 3820, 3955, 4092, 4231, 4374,
    4519, 4667, 4817, 4971, 5127, 5286, 5448, 5613, 5781, 5951, 6125, 6301,
    6480, 6663, 6848, 7036, 7227, 7421, 7619, 7819, 8022, 8228, 8438, 8650,
    8866, 9084, 9306, 9531, 9759, 9990, 10224, 10462, 10702, 10946, 11193, 11444,
    11697, 11954, 12214, 12477, 12744, 13014, 13287, 13563, 13843, 14126, 14413, 14703,
    14996, 15293, 15593, 15896, 16203, 16513, 16827, 17144, 17465, 17789, 18116, 18447,
    18782, 19120, 19462, 19807, 20156, 20508, 20864, 21223, 21586, 21953, 22323, 22697,
    23074, 23455, 23840, 24228, 24620, 25016, 25415, 25818, 26225, 26636, 27050, 27468,
    27889, 28315, 28744, 29177, 29614, 30054, 30499, 30947, 31399, 31855, 32314, 32778,
    33245, 33716, 34191, 34670, 35153, 35640, 36131, 36625, 37124, 37626, 38133, 38643,
    39157, 39676, 40198, 40724, 41254, 41789, 42327, 42869, 43415, 43966, 44520, 45079,
    45641, 46208, 46778, 47353, 47932, 48515, 49102, 49693, 50289, 50888, 51492, 52100,
    52712, 53328, 53948, 54572, 55201, 55834, 56471, 57112, 57758, 58408, 59062, 59720,
    60383, 61050, 61721, 62396, 63076, 63760, 64448, 65141, 65837, 66539, 67244, 67954,
    68669, 69387, 70110, 70838, 71569, 72306, 73046, 73791, 74540, 75294, 76052, 76815,
    77582, 78354, 79130, 79910, 80695, 81485, 82279, 83077, 83880, 84687, 85499, 86316,
    87137, 87962, 88792, 89627, 90466, 91310, 92158, 93011, 93869, 94731, 95597, 96469,
    97345, 98225, 99110, 100000
  >>

getRelativeLuminance(rgb) ==
  2126 * linearized[rgb.r + 1] + 7152 * linearized[rgb.g + 1] + 722 * linearized[rgb.b + 1]

\* luminance > 0.5
luminanceAboveHalf(rgb) == getRelativeLuminance(rgb) > 500000000

\* Mutant of generatePalette: for a light theme the text colours follow the
\* relative luminance of primary.
generatePaletteTextByLuminance(colors) ==
  IF Len(colors) = 0 THEN getDefaultPalette
  ELSE LET pal == buildPalette(colors)
           isDark == pal.background = "#0F172A"
           light == ~luminanceAboveHalf(colors[primaryIndex(colors)].rgb)
       IN  IF isDark THEN pal
           ELSE [pal EXCEPT !.text = IF light THEN "#F1F5F9" ELSE "#0F172A",
                            !.textSecondary = IF light THEN "#94A3B8" ELSE "#64748B"]

\* Mutant of generatePalette: the default palette also for one colour.
generatePaletteDefaultForOne(colors) ==
  IF Len(colors) <= 1 THEN getDefaultPalette ELSE buildPalette(colors)

generatePalette(colors) ==
  IF Len(colors) = 0 THEN getDefaultPalette ELSE buildPalette(colors)

(***************************************************************************)
(* Classifier.                                                             *)
(***************************************************************************)
\* Mutant of detectColorHarmony: the triadic test before the analogous one.
detectColorHarmonyTriadicFirst(colors) ==
  IF Len(colors) < 2 THEN "monochromatic"
  ELSE
    LET hues == [j \in 1..Min(5, Len(colors)) |-> colors[j].hsl.h]
        hueDiffs == [j \in 1..(Len(hues) - 1) |-> HueDist(hues[j + 1], hues[1])]
        total == SumSeq(hueDiffs)
        n == Len(hueDiffs)
    IN  IF total < 30 * n THEN "monochromatic"
        ELSE IF total >= 150 * n /\ total <= 210 * n THEN "complementary"
        ELSE IF \E j \in 1..n : hueDiffs[j] >= 110 /\ hueDiffs[j] <= 130 THEN "triadic"
        ELSE IF total >= 30 * n /\ total <= 60 * n THEN "analogous"
        ELSE "custom"

\* Mutant of detectColorHarmony: the triadic test over every pair of hues.
detectColorHarmonyAnyPair(colors) ==
  IF Len(colors) < 2 THEN "monochromatic"
  ELSE
    LET hues == [j \in 1..Min(5, Len(colors)) |-> colors[j].hsl.h]
        hueDiffs == [j \in 1..(Len(hues) - 1) |-> HueDist(hues[j + 1], hues[1])]
        total == SumSeq(hueDiffs)
        n == Len(hueDiffs)
    IN  IF total < 30 * n THEN "monochromatic"
        ELSE IF total >= 150 * n /\ total <= 210 * n THEN "complementary"
        ELSE IF total >= 30 * n /\ total <= 60 * n THEN "analogous"
        ELSE IF \E a, b \in 1..Len(hues) :
                  HueDist(hues[a], hues[b]) >= 110 /\ HueDist(hues[a], hues[b]) <= 130
             THEN "triadic"
        ELSE "custom"

detectColorHarmony(colors) ==
  IF Len(colors) < 2 THEN "monochromatic"
  ELSE
    LET hues == [j \in 1..Min(5, Len(colors)) |-> colors[j].hsl.h]
        hueDiffs == [j \in 1..(Len(hues) - 1) |-> HueDist(hues[j + 1], hues[1])]
        total == SumSeq(hueDiffs)
        n == Len(hueDiffs)
    IN  IF total < 30 * n THEN "monochromatic"
        ELSE IF total >= 150 * n /\ total <= 210 * n THEN "complementary"
        ELSE IF total >= 30 * n /\ total <= 60 * n THEN "analogous"
        ELSE IF \E j \in 1..n : hueDiffs[j] >= 110 /\ hueDiffs[j] <= 130 THEN "triadic"
        ELSE "custom"

\* For an empty list the average is 0 / 0 = NaN and both comparisons are false.
detectBrightness(colors) ==
  LET total == SumSeq([j \in 1..Len(colors) |-> colors[j].hsl.l])
      n == Len(colors)
  IN  IF n = 0 THEN "mixed"
      ELSE IF total < 35 * n THEN "dark"
      ELSE IF total > 65 * n THEN "light"
      ELSE "mixed"

detectSaturation(colors) ==
  LET total == SumSeq([j \in 1..Len(colors) |-> colors[j].hsl.s])
      n == Len(colors)
  IN  IF n = 0 THEN "mixed"
      ELSE IF total > 60 * n THEN "vibrant"
      ELSE IF total < 30 * n THEN "muted"
      ELSE "mixed"

(***************************************************************************)
(* Extraction methods.  A source is [kind, outcome, data]: kind is "url"   *)
(* (a string starting with http), "file" (another string) or "buffer";     *)
(* outcome says what the collaborators (fetch, sharp) do with it; data is  *)
(* the raw pixel data sharp returns when decoding succeeds.                *)
(***************************************************************************)
\* Mutant of getDefaultResult: the default primary as a dominant colour.
getDefaultResultWithColor ==
  [dominantColors |-> <<[hex |-> "#6366F1",
                         rgb |-> [r |-> 99, g |-> 102, b |-> 241],
                         hsl |-> [h |-> 239, s |-> 84, l |-> 67],
                         frequency |-> [num |-> 1, den |-> 1],
                         name |-> "blue"]>>,
   palette |-> getDefaultPalette,
   colorHarmony |-> "custom",
   brightness |-> "mixed",
   saturation |-> "mixed"]

getDefaultResult ==
  [dominantColors |-> <<>>,
   palette |-> getDefaultPalette,
   colorHarmony |-> "custom",
   brightness |-> "mixed",
   saturation |-> "mixed"]

\* The five statements that build a result from dominantColors.
describeColors(dominantColors) ==
  [dominantColors |-> dominantColors,
   palette |-> generatePalette(dominantColors),
   colorHarmony |-> detectColorHarmony(dominantColors),
   brightness |-> detectBrightness(dominantColors),
   saturation |-> detectSaturation(dominantColors)]

\* Body of the try block after sharp has decoded the image.
analyzePixels(data, bucketSize) ==
  describeColors(getDominantColors(quantizeColors(data, bucketSize), DominantCount))

extractFromBuffer(source, bucketSize) ==
  IF source.outcome = "decode_error" THEN getDefaultResult
  ELSE analyzePixels(source.data, bucketSize)

extractFromFile(source, bucketSize) ==
  IF source.outcome = "decode_error" THEN getDefaultResult
  ELSE analyzePixels(source.data, bucketSize)

extractFromUrl(source, bucketSize) ==
  IF source.outcome \in {"fetch_error", "http_error"} THEN getDefaultResult
  ELSE extractFromBuffer(source, bucketSize)

\* The dispatch on the type of a source inside extractFromMultiple's loop.
extractSource(source, bucketSize) ==
  IF source.kind = "url" THEN extractFromUrl(source, bucketSize)
  ELSE IF source.kind = "file" THEN extractFromFile(source, bucketSize)
  ELSE extractFromBuffer(source, bucketSize)

\* The statements after the loop: aggregate, keep ten, describe.
finishMultiple(colors) ==
  describeColors(Slice(aggregateColors(colors), 0, DominantCount))

\* extractFromMultiple as a function of its argument.
extractFromMultiple(srcs, bucketSize) ==
  LET found == [j \in 1..Len(srcs) |-> extractSource(srcs[j], bucketSize).dominantColors]
  IN  finishMultiple(Flatten(found))

(***************************************************************************)
(* Inputs.                                                                 *)
(***************************************************************************)
BucketSizes == {1, DefaultBucketSize}

\* The numbers given to the constructor: the sizes above and a negative
\* one.  (With 0 every channel becomes NaN.)
ConstructorArguments == BucketSizes \cup {-1}

Blue      == <<0, 0, 255>>        \* #0000FF
NearBlack == <<16, 16, 16>>       \* #101010
White     == <<255, 255, 255>>    \* #FFFFFF
SteelA    == <<51, 102, 204>>     \* #3366CC
SteelB    == <<51, 102, 205>>     \* #3366CD
Brick     == <<192, 64, 64>>      \* #C04040
Vermilion == <<240, 16, 0>>       \* #F01000
Teal      == <<64, 192, 192>>     \* #40C0C0

PixelValues == {Blue, White, SteelA, Brick, Vermilion}

Rep(px, n) == [j \in 1..n |-> px]

SeqsUpTo(S, n) == UNION {[1..k -> S] : k \in 0..n}

\* Images made of up to MaxRuns blocks of distinct colours, each of
\* 1..MaxRunLen pixels.
PixelOrders ==
  {ps \in SeqsUpTo(PixelValues, MaxRuns) :
     Len(ps) >= 1 /\ \A a, b \in 1..Len(ps) : a # b => ps[a] # ps[b]}

Images ==
  UNION {{Flatten([j \in 1..Len(ps) |-> Rep(ps[j], ns[j])]) :
            ns \in [1..Len(ps) -> 1..MaxRunLen]} : ps \in PixelOrders}

\* The images given to extractFromMultiple.
MultiImages ==
  {Rep(NearBlack, 1), Rep(White, 1),
   Rep(SteelA, 3) \o Rep(NearBlack, 2),
   Rep(NearBlack, 3) \o Rep(SteelB, 2)}

Source(kind, outcome, data) == [kind |-> kind, outcome |-> outcome, data |-> data]

FailingSources ==
  {Source("url", "fetch_error", <<>>), Source("url", "http_error", <<>>),
   Source("url", "decode_error", <<>>), Source("file", "decode_error", <<>>),
   Source("buffer", "decode_error", <<>>)}

MultiSources ==
  FailingSources \cup
  {Source(k, "ok", img) : k \in {"url", "file", "buffer"}, img \in MultiImages}

\* Images of four colours, for the palette's additionalColors, and one of
\* two opposite hues.
PaletteImages ==
  {<<SteelA, Brick, White, Blue>>, <<Vermilion, Brick, SteelA, Blue>>,
   <<Brick, Teal>>}

BufferSources ==
  {Source("buffer", "decode_error", <<>>)} \cup
  {Source("buffer", "ok", img) : img \in Images \cup PaletteImages}

Succeeds(source) == source.outcome = "ok"

(***************************************************************************)
(* The private methods a step calls, for the history variable `calls`.     *)
(***************************************************************************)
Methods ==
  {"quantizeColors", "getDominantColors", "aggregateColors", "generatePalette",
   "detectColorHarmony", "detectBrightness", "detectSaturation"}

Called(history, methods) ==
  [m \in Methods |-> IF m \in methods THEN history[m] + 1 ELSE history[m]]

\* Mutant of sourceCalls: only the quantizer and the selector per source.
sourceCallsSelectorOnly(source) ==
  IF Succeeds(source) THEN {"quantizeColors", "getDominantColors"} ELSE {}

\* The methods one extractFromUrl / extractFromFile / extractFromBuffer
\* calls: all of the try block once the image is decoded, none when the
\* fetch or the decoding throws.
sourceCalls(source) ==
  IF Succeeds(source)
    THEN {"quantizeColors", "getDominantColors", "generatePalette",
          "detectColorHarmony", "detectBrightness", "detectSaturation"}
    ELSE {}

\* The methods extractFromMultiple calls itself after its loop.
finishCalls ==
  {"aggregateColors", "generatePalette", "detectColorHarmony",
   "detectBrightness", "detectSaturation"}

\* Mutant of loopEnded: the loop left before its last element.
loopEndedEarly(i, srcs) == i >= Len(srcs)

\* `for (const source of sources)` has gone past the last element.
loopEnded(i, srcs) == i > Len(srcs)

\* No ColorExtractor takes part.
EngineUnused ==
  /\ colorBucketSize = DefaultBucketSize
  /\ op = "none"
  /\ sources = <<>>
  /\ countArg = DominantCount
  /\ pc = "idle"
  /\ idx = 1
  /\ allColors = <<>>
  /\ dominant = <<>>
  /\ result = <<>>
  /\ calls = [m \in Methods |-> 0]
  /\ firstRun = <<>>

\* No DesignStore takes part in a run of the colour engine.
StoreUnused ==
  /\ defaultStore = <<>>
  /\ storeData = <<>>
  /\ saveDebounce = "null"
  /\ timers = 0
  /\ memVersion = 0
  /\ fileVersion = -1
  /\ fileContent = <<>>
  /\ returned = <<>>
  /\ opsDone = 0

\* No DesignScoutAgent has been constructed.
AgentUnused ==
  /\ storeInitialized = FALSE
  /\ initCalls = 0
  /\ tasks = <<>>
  /\ collectedItems = 0
  /\ active = <<>>
  /\ events = <<>>
  /\ results = <<>>

\* fetchWithRetry has not been called.
FetchUnused ==
  /\ retries = 0
  /\ retryIndex = 0
  /\ fetchPc = "idle"
  /\ responses = <<>>
  /\ delays = <<>>
  /\ fetchResult = <<>>

(***************************************************************************)
(* The state machine: one call of one method on one engine.                *)
(***************************************************************************)
Init ==
  /\ colorBucketSize \in ConstructorArguments
  /\ pc = "start"
  /\ idx = 1
  /\ allColors = <<>>
  /\ dominant = <<>>
  /\ result = <<>>
  /\ calls = [m \in Methods |-> 0]
  /\ firstRun = <<>>
  /\ StoreUnused
  /\ AgentUnused
  /\ FetchUnused
  /\ \/ /\ op = "extractFromMultiple"
        /\ sources \in SeqsUpTo(MultiSources, MaxSources)
        /\ countArg = DominantCount
     \/ /\ op = "extractFromBuffer"
        /\ sources \in {<<s>> : s \in BufferSources}
        /\ countArg = DominantCount
     \/ /\ op = "extractFromUrl"
        /\ sources \in {<<s>> : s \in {m \in MultiSources : m.kind = "url"}}
        /\ countArg = DominantCount
     \/ /\ op = "extractFromFile"
        /\ sources \in {<<s>> : s \in {m \in MultiSources : m.kind = "file"}}
        /\ countArg = DominantCount
     \/ /\ op \in {"getDominantColors", "ensureDiversity"}
        /\ colorBucketSize \in BucketSizes
        /\ sources \in {<<Source("buffer", "ok", img)>> : img \in Images}
        /\ countArg \in 1..MaxCount

ExtractFromBuffer ==
  /\ pc = "start" /\ op = "extractFromBuffer"
  /\ result' = <<extractFromBuffer(sources[1], colorBucketSize)>>
  /\ calls' = Called(calls, sourceCalls(sources[1]))
  /\ pc' = "done"
  /\ UNCHANGED <<colorBucketSize, op, sources, countArg, idx, allColors, dominant>>
  /\ UNCHANGED otherVars

ExtractFromFile ==
  /\ pc = "start" /\ op = "extractFromFile"
  /\ result' = <<extractFromFile(sources[1], colorBucketSize)>>
  /\ calls' = Called(calls, sourceCalls(sources[1]))
  /\ pc' = "done"
  /\ UNCHANGED <<colorBucketSize, op, sources, countArg, idx, allColors, dominant>>
  /\ UNCHANGED otherVars

ExtractFromUrl ==
  /\ pc = "start" /\ op = "extractFromUrl"
  /\ result' = <<extractFromUrl(sources[1], colorBucketSize)>>
  /\ calls' = Called(calls, sourceCalls(sources[1]))
  /\ pc' = "done"
  /\ UNCHANGED <<colorBucketSize, op, sources, countArg, idx, allColors, dominant>>
  /\ UNCHANGED otherVars

\* A direct call of the selector on the histogram of an image.
GetDominantColors ==
  /\ pc = "start" /\ op = "getDominantColors"
  /\ dominant' = <<getDominantColors(
                     quantizeColors(sources[1].data, colorBucketSize), countArg)>>
  /\ calls' = Called(calls, {"getDominantColors"})
  /\ pc' = "done"
  /\ UNCHANGED <<colorBucketSize, op, sources, countArg, idx, allColors, result>>
  /\ UNCHANGED otherVars

\* A direct call of the diversity filter on all the colours of an image,
\* ranked by frequency.
EnsureDiversity ==
  /\ pc = "start" /\ op = "ensureDiversity"
  /\ dominant' = <<ensureDiversity(
                     rankedColors(quantizeColors(sources[1].data, colorBucketSize)),
                     countArg)>>
  /\ pc' = "done"
  /\ UNCHANGED <<colorBucketSize, op, sources, countArg, idx, allColors, result, calls>>
  /\ UNCHANGED otherVars

\* One iteration of extractFromMultiple's for loop.
ProcessSource ==
  /\ op = "extractFromMultiple" /\ pc \in {"start", "loop"}
  /\ ~loopEnded(idx, sources)
  /\ allColors' = allColors \o extractSource(sources[idx], colorBucketSize).dominantColors
  /\ calls' = Called(calls, sourceCalls(sources[idx]))
  /\ idx' = idx + 1
  /\ pc' = "loop"
  /\ UNCHANGED <<colorBucketSize, op, sources, countArg, dominant, result>>
  /\ UNCHANGED otherVars

\* The loop has ended: aggregate and return.
Aggregate ==
  /\ op = "extractFromMultiple" /\ pc \in {"start", "loop"}
  /\ loopEnded(idx, sources)
  /\ result' = <<finishMultiple(allColors)>>
  /\ calls' = Called(calls, finishCalls)
  /\ pc' = "done"
  /\ UNCHANGED <<colorBucketSize, op, sources, countArg, idx, allColors, dominant>>
  /\ UNCHANGED otherVars

Next ==
  \/ ExtractFromBuffer
  \/ ExtractFromFile
  \/ ExtractFromUrl
  \/ GetDominantColors
  \/ EnsureDiversity
  \/ ProcessSource
  \/ Aggregate

Spec == Init /\ [][Next]_vars

(***************************************************************************)
(* Properties.                                                             *)
(***************************************************************************)
Returned == pc = "done" /\ result # <<>>

MultipleReturned == op = "extractFromMultiple" /\ Returned

SingleOps == {"extractFromBuffer", "extractFromFile", "extractFromUrl"}

\* A single extraction whose image was fetched and decoded has returned.
SingleAnalyzed == op \in SingleOps /\ Returned /\ Succeeds(sources[1])

NonIncreasing(colors) ==
  \A a, b \in 1..Len(colors) :
    a < b => colors[a].frequency.num * colors[b].frequency.den
               >= colors[b].frequency.num * colors[a].frequency.den

\* C1: extractFromMultiple over zero sources, or over sources that all
\* fail, returns the fixed default result: no dominant colours, the
\* default palette, harmony custom, brightness mixed, saturation mixed.
C1_DefaultOnEmptyBatch ==
  (MultipleReturned /\ \A j \in 1..Len(sources) : ~Succeeds(sources[j]))
    => /\ result[1].dominantColors = <<>>
       /\ result[1].palette.primary = "#6366F1"
       /\ result[1].palette.secondary = "#8B5CF6"
       /\ result[1].palette.accent = "#14B8A6"
       /\ result[1].palette.additionalColors = <<>>
       /\ result[1].colorHarmony = "custom"
       /\ result[1].brightness = "mixed"
       /\ result[1].saturation = "mixed"

\* C2: a failing source never aborts a batch and contributes no colours:
\* the loop goes past every source, failing or not, and what the method
\* returns is what extractFromMultiple returns for the succeeding sources
\* alone, in the same order.
C2_FailuresContributeNothing ==
  /\ (op = "extractFromMultiple" /\ pc = "done") => idx = Len(sources) + 1 /\ Returned
  /\ MultipleReturned =>
       result[1] = extractFromMultiple(SelectSeq(sources, Succeeds), colorBucketSize)

C2_Witness ==
  /\ MultipleReturned
  /\ \E j \in 1..Len(sources) : ~Succeeds(sources[j])
  /\ \E j \in 1..Len(sources) : Succeeds(sources[j])
  /\ result[1].dominantColors # <<>>

\* C3: dominantColors of every returned result is ordered by
\* non-increasing frequency, also after the fill step of the diversity
\* filter has run.
C3_SortedByFrequency ==
  (op \in SingleOps \cup {"extractFromMultiple"} /\ Returned)
    => NonIncreasing(result[1].dominantColors)

\* The calls of the diversity filter visible in a state: its input, its
\* count and its output.
FilterInput ==
  LET ranked == rankedColors(quantizeColors(sources[1].data, colorBucketSize))
  IN  IF op = "ensureDiversity" THEN ranked ELSE Slice(ranked, 0, countArg)

FilterOutput ==
  IF op \in SingleOps THEN result[1].dominantColors ELSE dominant[1]

FilterCalled ==
  /\ pc = "done"
  /\ \/ op \in {"ensureDiversity", "getDominantColors"}
     \/ SingleAnalyzed

\* The colours the greedy walk accepts before any fill.
GreedyAccepted == Len(diversityLoop(FilterInput, countArg, 2, <<1>>))

FillUsed == GreedyAccepted < countArg /\ Len(FilterOutput) > GreedyAccepted

\* C4: an output of the diversity filter with at least 2 colours has every
\* pair at circular hue distance > 30 or lightness distance > 20, unless
\* fewer than K diverse candidates were found and the fill was used.
C4_DiversePairs ==
  (FilterCalled /\ Len(FilterOutput) >= 2 /\ ~FillUsed)
    => \A a, b \in 1..Len(FilterOutput) :
         a # b =>
           LET x == FilterOutput[a].hsl
               y == FilterOutput[b].hsl
               hue == IF x.h >= y.h THEN x.h - y.h ELSE y.h - x.h
               lig == IF x.l >= y.l THEN x.l - y.l ELSE y.l - x.l
           IN  (hue > 30 /\ 360 - hue > 30) \/ lig > 20

C4_Witness ==
  /\ FilterCalled /\ ~FillUsed
  /\ Len(FilterOutput) >= 2
  /\ Len(FilterOutput) < Len(FilterInput)

\* The pixels of the image of a single-source call.
PixelData == sources[1].data

\* floor(v / B) * B over the rationals, for B # 0.
FloorToMultiple(v, B) ==
  IF B > 0 THEN v - (v % B) ELSE v + ((0 - v) % (0 - B))

\* Number of pixels the claim wants counted under `key`: those with mean
\* channel value in [10, 245] whose channels floor to `key`.
ClaimedCount(key, B) ==
  Cardinality({j \in 1..Len(PixelData) :
     LET r == PixelData[j][1]
         g == PixelData[j][2]
         b == PixelData[j][3]
     IN  /\ r + g + b >= 30 /\ r + g + b <= 735
         /\ key = <<FloorToMultiple(r, B), FloorToMultiple(g, B), FloorToMultiple(b, B)>>})

HistogramCount(colorMap, key) ==
  SumSeq([j \in 1..Len(colorMap) |-> IF colorMap[j].key = key THEN colorMap[j].n ELSE 0])

\* C5: the quantizer counts a pixel iff the mean of its three channel
\* values is in [10, 245], under the key of its floored channels.
C5_DiscardByPixelMean ==
  (pc = "done" /\ op \in {"getDominantColors", "ensureDiversity", "extractFromBuffer"}
     /\ Succeeds(sources[1]))
    => LET colorMap == quantizeColors(PixelData, colorBucketSize)
           keys == {colorMap[j].key : j \in 1..Len(colorMap)}
                     \cup {QuantKey(PixelData[j], colorBucketSize) : j \in 1..Len(PixelData)}
       IN  \A key \in keys :
             HistogramCount(colorMap, key) = ClaimedCount(key, colorBucketSize)

\* Scenario C: bucket size 16, an image of only #101010 pixels and an
\* image of only #FFFFFF pixels, aggregated in this order.
ScenarioC ==
  /\ op = "extractFromMultiple" /\ colorBucketSize = 16
  /\ Len(sources) = 2
  /\ Succeeds(sources[1]) /\ sources[1].data = Rep(NearBlack, Len(sources[1].data))
  /\ Succeeds(sources[2]) /\ sources[2].data = Rep(White, Len(sources[2].data))

SolidRetained ==
  /\ SingleAnalyzed
  /\ PixelData = Rep(PixelData[1], Len(PixelData))
  /\ ~Skipped(PixelData[1], colorBucketSize)

SolidBasics ==
  /\ Len(result[1].dominantColors) = 1
  /\ result[1].dominantColors[1].frequency = [num |-> 1, den |-> 1]
  /\ result[1].colorHarmony = "monochromatic"
  /\ result[1].palette.primary = result[1].dominantColors[1].hex

\* C7 as claimed: one dominant colour of frequency 1 whose hex is the
\* image's colour c, harmony monochromatic, primary = c.
C7_SolidKeepsItsColour ==
  SolidRetained
    => /\ SolidBasics
       /\ result[1].dominantColors[1].hex
            = rgbToHex(PixelData[1][1], PixelData[1][2], PixelData[1][3])

\* C7 as amended: the hex is that of c with each channel floored to a
\* multiple of the bucket size (#0000F0 for #0000FF with bucket size 16).
C7_SolidKeepsQuantizedColour ==
  SolidRetained
    => LET c == PixelData[1]
           B == colorBucketSize
       IN  /\ SolidBasics
           /\ result[1].dominantColors[1].hex
                = rgbToHex(FloorToMultiple(c[1], B), FloorToMultiple(c[2], B),
                          FloorToMultiple(c[3], B))
           /\ (c = Blue /\ B = 16) => result[1].dominantColors[1].hex = "#0000F0"
           /\ (c = Blue /\ B = 1) => result[1].dominantColors[1].hex = "#0000FF"

C7_Witness ==
  SolidRetained /\ PixelData[1] = Blue /\ colorBucketSize = 16 /\ Len(PixelData) > 1

\* Cluster of the i-th input colour, named by the index of its first-seen
\* colour: the first earlier cluster head within hue distance < 20 and
\* saturation distance < 20, else i itself.
RECURSIVE ClusterHead(_, _)
ClusterHead(colors, i) ==
  LET close(x, y) ==
        LET hue == IF x.h >= y.h THEN x.h - y.h ELSE y.h - x.h
            sat == IF x.s >= y.s THEN x.s - y.s ELSE y.s - x.s
        IN  (hue < 20 \/ 360 - hue < 20) /\ sat < 20
      heads == {j \in 1..(i - 1) :
                  ClusterHead(colors, j) = j /\ close(colors[i].hsl, colors[j].hsl)}
  IN  IF heads = {} THEN i ELSE CHOOSE j \in heads : \A k \in heads : j <= k

RECURSIVE ProductOfDens(_)
ProductOfDens(colors) ==
  IF colors = <<>> THEN 1 ELSE Head(colors).frequency.den * ProductOfDens(Tail(colors))

\* f is the arithmetic mean of the frequencies of the members of head's cluster.
IsClusterMean(colors, head, f) ==
  LET D == ProductOfDens(colors)
      members == {i \in 1..Len(colors) : ClusterHead(colors, i) = head}
      scaled == SumSeq([i \in 1..Len(colors) |->
                  IF i \in members
                    THEN colors[i].frequency.num * (D \div colors[i].frequency.den)
                    ELSE 0])
  IN  f.num * D * Cardinality(members) = scaled * f.den

SteelA60 ==
  [hex |-> "#3366CC", rgb |-> [r |-> 51, g |-> 102, b |-> 204],
   hsl |-> [h |-> 220, s |-> 60, l |-> 50],
   frequency |-> [num |-> 3, den |-> 5], name |-> "blue"]

SteelB40 ==
  [hex |-> "#3366CD", rgb |-> [r |-> 51, g |-> 102, b |-> 205],
   hsl |-> [h |-> 220, s |-> 61, l |-> 50],
   frequency |-> [num |-> 2, den |-> 5], name |-> "blue"]

\* C8: aggregateColors folds each colour into the first cluster whose
\* first-seen colour is within hue distance < 20 and saturation distance
\* < 20, else starts a cluster; it emits one colour per cluster with the
\* first-seen hex/rgb/hsl and the mean of the folded frequencies (0.6 and
\* 0.4 give one entry of 0.5), sorted by descending frequency.
C8_AggregateClusters ==
  /\ aggregateColors(<<SteelA60, SteelB40>>)
       = <<[SteelA60 EXCEPT !.frequency = [num |-> 1, den |-> 2]]>>
  /\ (MultipleReturned /\ Len(allColors) <= 10)
       => LET out == result[1].dominantColors
              heads == {i \in 1..Len(allColors) : ClusterHead(allColors, i) = i}
          IN  /\ Len(out) = Cardinality(heads)
              /\ \A h \in heads :
                   \E k \in 1..Len(out) :
                     /\ out[k].hex = allColors[h].hex
                     /\ out[k].rgb = allColors[h].rgb
                     /\ out[k].hsl = allColors[h].hsl
                     /\ IsClusterMean(allColors, h, out[k].frequency)
              /\ NonIncreasing(out)

\* Two sources whose #3366CC (0.6) and #3366CD (0.4) fold into one entry
\* of 0.5, with a second cluster beside it.
C8_Witness ==
  /\ MultipleReturned
  /\ \E a, b \in 1..Len(allColors) :
       /\ allColors[a].hex = "#3366CC" /\ allColors[a].frequency = [num |-> 3, den |-> 5]
       /\ allColors[b].hex = "#3366CD" /\ allColors[b].frequency = [num |-> 2, den |-> 5]
       /\ ClusterHead(allColors, b) = a
  /\ Len(result[1].dominantColors) = 2
  /\ \E k \in 1..2 :
       /\ result[1].dominantColors[k].hex = "#3366CC"
       /\ result[1].dominantColors[k].frequency = [num |-> 1, den |-> 2]

ApiOps == SingleOps \cup {"extractFromMultiple"}

\* C9: palette.primary is the hex of a colour of maximum saturation and,
\* among the colours tied at that saturation, of the highest frequency.
C9_PrimaryMostSaturatedThenFrequent ==
  (op \in ApiOps /\ Returned /\ result[1].dominantColors # <<>>)
    => LET dc == result[1].dominantColors
       IN  \E i \in 1..Len(dc) :
             /\ dc[i].hex = result[1].palette.primary
             /\ \A j \in 1..Len(dc) :
                  /\ dc[j].hsl.s <= dc[i].hsl.s
                  /\ dc[j].hsl.s = dc[i].hsl.s
                       => dc[j].frequency.num * dc[i].frequency.den
                            <= dc[i].frequency.num * dc[j].frequency.den

\* C10: when dominantColors is non-empty, palette.primary is the hex of
\* one of its elements; only an empty dominantColors gets the default.
C10_PrimaryFromDominantColors ==
  (op \in ApiOps /\ Returned /\ result[1].dominantColors # <<>>)
    => \E i \in 1..Len(result[1].dominantColors) :
         result[1].palette.primary = result[1].dominantColors[i].hex

C10_Witness ==
  /\ op \in ApiOps /\ Returned
  /\ Len(result[1].dominantColors) >= 2
  /\ result[1].palette.primary # result[1].dominantColors[1].hex
  /\ result[1].palette.primary # "#6366F1"

\* The index in dominantColors of the colour the palette names as `which`.
PaletteIndex(res, which) ==
  CHOOSE i \in 1..Len(res.dominantColors) : res.dominantColors[i].hex = res.palette[which]

HarmonicWith(a, b) ==
  LET d == HueDist(a.hsl.h, b.hsl.h)
  IN  (d >= 30 /\ d <= 60) \/ (d >= 150 /\ d <= 210)

\* C11: palette.secondary is the first colour other than primary whose
\* hue distance to primary is in [30,60] or [150,210]; when there is none
\* it is the second colour of the list; and with at least 2 colours it is
\* a different element from primary.
C11_SecondaryDiffersFromPrimary ==
  (op \in ApiOps /\ Returned /\ Len(result[1].dominantColors) >= 2)
    => LET dc == result[1].dominantColors
           p == PaletteIndex(result[1], "primary")
           ok == {j \in 1..Len(dc) : j # p /\ HarmonicWith(dc[j], dc[p])}
       IN  /\ ok # {} => \E j \in ok : /\ \A k \in ok : j <= k
                                       /\ result[1].palette.secondary = dc[j].hex
           /\ ok = {} => result[1].palette.secondary = dc[2].hex
           /\ result[1].palette.secondary # result[1].palette.primary

\* C12: palette.accent is the first colour, primary and secondary
\* excluded, with saturation > 50; when there is none it is the third
\* colour of the list; and with at least 3 colours it is a different
\* element from both primary and secondary.
C12_AccentDiffersFromBoth ==
  (op \in ApiOps /\ Returned /\ Len(result[1].dominantColors) >= 3)
    => LET dc == result[1].dominantColors
           p == PaletteIndex(result[1], "primary")
           s == PaletteIndex(result[1], "secondary")
           ok == {j \in 1..Len(dc) : j # p /\ j # s /\ dc[j].hsl.s > 50}
       IN  /\ ok # {} => \E j \in ok : /\ \A k \in ok : j <= k
                                       /\ result[1].palette.accent = dc[j].hex
           /\ ok = {} => result[1].palette.accent = dc[3].hex
           /\ result[1].palette.accent # result[1].palette.primary
           /\ result[1].palette.accent # result[1].palette.secondary

\* C13: palette.additionalColors holds only colours that are not the
\* chosen primary, secondary or accent, holds every such remaining colour
\* up to a cap of 5, and never has more than 5 entries.
C13_AdditionalColoursAreTheRest ==
  (op \in ApiOps /\ Returned /\ result[1].dominantColors # <<>>)
    => LET dc == result[1].dominantColors
           pal == result[1].palette
           chosen == {pal.primary, pal.secondary, pal.accent}
           rest == SelectSeq(dc, LAMBDA c : c.hex \notin chosen)
           add == pal.additionalColors
       IN  /\ Len(add) <= 5
           /\ \A k \in 1..Len(add) : add[k] \notin chosen
           /\ Len(add) = Min(5, Len(rest))
           /\ \A k \in 1..Len(add) : \E j \in 1..Len(rest) : rest[j].hex = add[k]

\* The set of a returned result is light-themed: its average lightness is
\* at least 50.
LightThemed(res) ==
  /\ res.dominantColors # <<>>
  /\ SumSeq([j \in 1..Len(res.dominantColors) |-> res.dominantColors[j].hsl.l])
       >= 50 * Len(res.dominantColors)

PrimaryColour(res) == res.dominantColors[PaletteIndex(res, "primary")]

\* C14 as stated: in a light-themed palette text and textSecondary are
\* the dark text constants when primary's relative luminance is > 0.5 and
\* the light text constants otherwise.
C14_TextByPrimaryLuminance ==
  (op \in ApiOps /\ Returned /\ LightThemed(result[1]))
    => IF luminanceAboveHalf(PrimaryColour(result[1]).rgb)
       THEN /\ result[1].palette.text = "#0F172A"
            /\ result[1].palette.textSecondary = "#64748B"
       ELSE /\ result[1].palette.text = "#F1F5F9"
            /\ result[1].palette.textSecondary = "#94A3B8"

\* C14 amended: text and textSecondary depend on the theme only.  A
\* light-themed palette has text #0F172A and textSecondary #64748B
\* whatever the relative luminance of primary; a dark-themed one has
\* #F1F5F9 and #94A3B8.
C14_TextByThemeOnly ==
  (op \in ApiOps /\ Returned /\ result[1].dominantColors # <<>>)
    => IF LightThemed(result[1])
       THEN /\ result[1].palette.text = "#0F172A"
            /\ result[1].palette.textSecondary = "#64748B"
       ELSE /\ result[1].palette.text = "#F1F5F9"
            /\ result[1].palette.textSecondary = "#94A3B8"

\* A light-themed palette whose primary has relative luminance <= 0.5 and
\* whose text is nevertheless the dark constant.
C14_Witness ==
  /\ op \in ApiOps /\ Returned /\ LightThemed(result[1])
  /\ ~luminanceAboveHalf(PrimaryColour(result[1]).rgb)
  /\ result[1].palette.text = "#0F172A"
  /\ result[1].palette.textSecondary = "#64748B"

\* A returned result whose harmony was computed from its dominantColors.
Classified ==
  /\ op \in ApiOps /\ Returned
  /\ op = "extractFromMultiple" \/ Succeeds(sources[1])

\* Circular hue distances of colours 2..5 to the first colour.
FirstHueDistances(dc) ==
  [j \in 1..(Min(5, Len(dc)) - 1) |-> HueDist(dc[j + 1].hsl.h, dc[1].hsl.h)]

\* C15: harmony is first-match-wins on the average hue distance of
\* colours 2..5 to the first colour: fewer than 2 colours monochromatic;
\* average < 30 monochromatic; average in [150,210] complementary;
\* average in [30,60] analogous, even when some distance is in [110,130];
\* triadic and custom only when none of these holds.
C15_HarmonyFirstMatchWins ==
  Classified =>
    LET dc == result[1].dominantColors
        harmony == result[1].colorHarmony
        d == FirstHueDistances(dc)
        total == SumSeq(d)
        n == Len(d)
    IN  IF Len(dc) < 2 THEN harmony = "monochromatic"
        ELSE /\ total < 30 * n => harmony = "monochromatic"
             /\ (total >= 150 * n /\ total <= 210 * n) => harmony = "complementary"
             /\ (total >= 30 * n /\ total <= 60 * n) => harmony = "analogous"
             /\ harmony \in {"triadic", "custom"}
                  => /\ total > 60 * n
                     /\ total < 150 * n \/ total > 210 * n

\* An average in [30,60] with a distance in [110,130]: analogous.
C15_Witness ==
  /\ Classified
  /\ Len(result[1].dominantColors) >= 3
  /\ LET d == FirstHueDistances(result[1].dominantColors)
     IN  /\ SumSeq(d) >= 30 * Len(d) /\ SumSeq(d) <= 60 * Len(d)
         /\ \E j \in 1..Len(d) : d[j] >= 110 /\ d[j] <= 130
  /\ result[1].colorHarmony = "analogous"

\* The result was classified and none of the average-distance rules
\* matched.
NoAverageRule ==
  /\ Classified
  /\ Len(result[1].dominantColors) >= 2
  /\ LET d == FirstHueDistances(result[1].dominantColors)
     IN  /\ SumSeq(d) > 60 * Len(d)
         /\ SumSeq(d) < 150 * Len(d) \/ SumSeq(d) > 210 * Len(d)

\* Some pair (a, b) of the first up-to-5 colours, a from `firsts`, has a
\* hue distance in [110,130].
TriadicPair(dc, firsts) ==
  \E a \in firsts, b \in 1..Min(5, Len(dc)) :
    /\ a < b
    /\ HueDist(dc[a].hsl.h, dc[b].hsl.h) >= 110
    /\ HueDist(dc[a].hsl.h, dc[b].hsl.h) <= 130

\* C16 as stated: when no average-distance rule matches, harmony is
\* triadic iff some pair among the first up-to-5 colours, not only a pair
\* with the first colour, has hue distance in [110,130]; else custom.
C16_TriadicByAnyPair ==
  NoAverageRule =>
    LET dc == result[1].dominantColors
    IN  result[1].colorHarmony =
          IF TriadicPair(dc, 1..Len(dc)) THEN "triadic" ELSE "custom"

\* C16 amended: when no average-distance rule matches, harmony is triadic
\* iff the hue distance from the first colour to one of the colours 2..5
\* is in [110,130]; else custom, also when two later colours are 110 to
\* 130 degrees apart.
C16_TriadicByFirstColour ==
  NoAverageRule =>
    LET dc == result[1].dominantColors
    IN  result[1].colorHarmony = IF TriadicPair(dc, {1}) THEN "triadic" ELSE "custom"

\* Two later colours 110..130 degrees apart, none that far from the first
\* colour: custom.
C16_Witness ==
  /\ NoAverageRule
  /\ TriadicPair(result[1].dominantColors, 1..Len(result[1].dominantColors))
  /\ ~TriadicPair(result[1].dominantColors, {1})
  /\ result[1].colorHarmony = "custom"

\* The histogram entries of the image of a direct selector call, ranked
\* by frequency.
Ranked == rankedColors(quantizeColors(sources[1].data, colorBucketSize))

\* C17: the selector gives the diversity filter the top 2*K entries: an
\* entry ranked K+1..2*K that the greedy walk over this pool accepts
\* (diverse from every accepted colour, fewer than K accepted) is in
\* dominantColors, and the result has min(K, pool size) distinct entries.
C17_PoolOfTwiceK ==
  (op = "getDominantColors" /\ pc = "done" /\ Ranked # <<>>)
    => LET pool == Slice(Ranked, 0, 2 * countArg)
           accepted == diversityLoop(pool, countArg, 2, <<1>>)
           out == dominant[1]
       IN  /\ Len(out) = Min(countArg, Len(pool))
           /\ \A a, b \in 1..Len(out) : a # b => out[a].hex # out[b].hex
           /\ \A k \in 1..Len(accepted) :
                accepted[k] > countArg
                  => \E a \in 1..Len(out) : out[a] = pool[accepted[k]]

\* C18: no engine with a bucket size <= 0 exists, so no extraction of an
\* image runs with such a bucket size.
C18_NoNonPositiveBucketSize ==
  SingleAnalyzed => colorBucketSize > 0

\* The extraction of the j-th source of extractFromMultiple is over.
Completed(j) == j < idx

\* C19: in extractFromMultiple aggregateColors is called only when the
\* extraction of every source has completed, by success or by failure,
\* and the colours of every successful source are in its input, in the
\* order of the sources.
C19_AggregateAfterAllSources ==
  op = "extractFromMultiple" =>
    /\ (\E j \in 1..Len(sources) : ~Completed(j)) => calls["aggregateColors"] = 0
    /\ calls["aggregateColors"] > 0 =>
         /\ MultipleReturned
         /\ allColors =
              Flatten([j \in 1..Len(sources) |->
                         IF Succeeds(sources[j])
                           THEN analyzePixels(sources[j].data, colorBucketSize).dominantColors
                           ELSE <<>>])

\* Aggregation after a failed and a successful extraction, with the
\* colours of the successful one.
C19_Witness ==
  /\ op = "extractFromMultiple"
  /\ calls["aggregateColors"] = 1
  /\ Len(sources) = 2
  /\ ~Succeeds(sources[1]) /\ Succeeds(sources[2])
  /\ Completed(1) /\ Completed(2)
  /\ allColors # <<>>

\* The sources of extractFromMultiple that were fetched and decoded.
Decoded == Cardinality({j \in 1..Len(sources) : Succeeds(sources[j])})

Classifier == {"detectColorHarmony", "detectBrightness", "detectSaturation"}

\* C20 as stated: during one extractFromMultiple the three classifier
\* methods and generatePalette each run exactly once, and the sources
\* only go through the quantizer and the selector.
C20_ClassifiedOnce ==
  MultipleReturned =>
    /\ \A m \in Classifier \cup {"generatePalette"} : calls[m] = 1
    /\ calls["quantizeColors"] = Decoded
    /\ calls["getDominantColors"] = Decoded

\* C20 amended: the three classifier methods and generatePalette each
\* run once per decoded source and once more, last, on the merged list;
\* the quantizer and the selector run once per decoded source, the
\* aggregator once; only the last run's output is in the result.
C20_ClassifiedPerSourceAndOnceMore ==
  MultipleReturned =>
    /\ \A m \in Classifier \cup {"generatePalette"} : calls[m] = Decoded + 1
    /\ calls["quantizeColors"] = Decoded
    /\ calls["getDominantColors"] = Decoded
    /\ calls["aggregateColors"] = 1
    /\ LET merged == Slice(aggregateColors(allColors), 0, DominantCount)
       IN  /\ result[1].dominantColors = merged
           /\ result[1].palette = generatePalette(merged)
           /\ result[1].colorHarmony = detectColorHarmony(merged)
           /\ result[1].brightness = detectBrightness(merged)
           /\ result[1].saturation = detectSaturation(merged)

\* Two decoded sources: three runs of the classifier and the synthesizer.
C20_Witness ==
  /\ MultipleReturned
  /\ Decoded = 2
  /\ calls["generatePalette"] = 3
  /\ calls["detectColorHarmony"] = 3

\* C30: no two colours of the aggregator's output are similar: every
\* pair of distinct entries has circular hue distance >= 20 or saturation
\* distance >= 20; and the output has no more entries than the input.
C30_AggregateOutputDissimilar ==
  MultipleReturned =>
    LET out == result[1].dominantColors
    IN  /\ Len(out) <= Len(allColors)
        /\ \A a, b \in 1..Len(out) :
             a # b =>
               LET hue == IF out[a].hsl.h >= out[b].hsl.h
                            THEN out[a].hsl.h - out[b].hsl.h
                            ELSE out[b].hsl.h - out[a].hsl.h
                   sat == IF out[a].hsl.s >= out[b].hsl.s
                            THEN out[a].hsl.s - out[b].hsl.s
                            ELSE out[b].hsl.s - out[a].hsl.s
               IN  (hue >= 20 /\ 360 - hue >= 20) \/ sat >= 20

\* Four input colours, two of them similar, aggregated into fewer
\* entries that are pairwise dissimilar.
C30_Witness ==
  /\ MultipleReturned
  /\ Len(allColors) >= 3
  /\ Len(result[1].dominantColors) >= 2
  /\ Len(result[1].dominantColors) < Len(allColors)
  /\ \E a, b \in 1..Len(allColors) :
       a # b /\ allColors[a].hex # allColors[b].hex /\ Similar(allColors[a], allColors[b])

(***************************************************************************)
(* Two equal calls on one engine.  The class has one field,                *)
(* colorBucketSize, which no method assigns; the histogram, allColors and  *)
(* the cluster map are locals that every call creates anew.                *)
(***************************************************************************)
\* Mutant of newAllColors: allColors kept from the call before.
keptAllColors(previous) == previous

\* `const allColors: ExtractedColor[] = []` at the start of a call.
newAllColors(previous) == <<>>

InitRerun ==
  /\ colorBucketSize \in ConstructorArguments
  /\ pc = "start"
  /\ idx = 1
  /\ allColors = <<>>
  /\ dominant = <<>>
  /\ result = <<>>
  /\ calls = [m \in Methods |-> 0]
  /\ firstRun = <<>>
  /\ StoreUnused
  /\ AgentUnused
  /\ FetchUnused
  /\ \/ /\ op = "extractFromMultiple"
        /\ sources \in SeqsUpTo(MultiSources, MaxSources)
        /\ countArg = DominantCount
     \/ /\ op = "extractFromBuffer"
        /\ sources \in {<<Source("buffer", "ok", img)>> : img \in PaletteImages}
        /\ countArg = DominantCount
     \/ /\ op = "extractFromUrl"
        /\ sources \in {<<s>> : s \in {m \in MultiSources : m.kind = "url"}}
        /\ countArg = DominantCount
     \/ /\ op = "extractFromFile"
        /\ sources \in {<<s>> : s \in {m \in MultiSources : m.kind = "file"}}
        /\ countArg = DominantCount
     \/ /\ op \in {"getDominantColors", "ensureDiversity"}
        /\ colorBucketSize \in BucketSizes
        /\ sources \in {<<Source("buffer", "ok", img)>> : img \in PaletteImages}
        /\ countArg \in 1..MaxCount

\* The same method is called again with the same argument.
Rerun ==
  /\ pc = "done" /\ firstRun = <<>>
  /\ firstRun' = <<[result |-> result, dominant |-> dominant, allColors |-> allColors]>>
  /\ pc' = "start"
  /\ idx' = 1
  /\ allColors' = newAllColors(allColors)
  /\ dominant' = <<>>
  /\ result' = <<>>
  /\ calls' = [m \in Methods |-> 0]
  /\ UNCHANGED <<colorBucketSize, op, sources, countArg, storeVars, agentVars, fetchVars>>

NextRerun == Next \/ Rerun

SpecRerun == InitRerun /\ [][NextRerun]_vars

HasKey(obj, k) == \E j \in 1..Len(obj) : obj[j].key = k

\* obj[k], for a key that is present
Lookup(obj, k) == obj[CHOOSE j \in 1..Len(obj) : obj[j].key = k].value

\* obj[k] = v
Put(obj, k, v) ==
  IF HasKey(obj, k)
    THEN [j \in 1..Len(obj) |-> IF obj[j].key = k THEN [key |-> k, value |-> v] ELSE obj[j]]
    ELSE Append(obj, [key |-> k, value |-> v])

\* delete obj[k]
Remove(obj, k) == SelectSeq(obj, LAMBDA e : e.key # k)

\* Object.values(obj)
Values(obj) == [j \in 1..Len(obj) |-> obj[j].value]

\* array.includes(x)
Includes(array, x) == \E j \in 1..Len(array) : array[j] = x

\* array.filter(y => y !== x)
Without(array, x) == SelectSeq(array, LAMBDA y : y # x)

StoreFields == {"designs", "collections", "favorites", "history"}

\* const DEFAULT_STORE: designs {}, collections {}, favorites [], history [].
DEFAULT_STORE == [f \in StoreFields |-> <<>>]

OwnObject(v) == [shared |-> FALSE, own |-> v]

\* { ...DEFAULT_STORE }: every field refers to DEFAULT_STORE's object.
spreadDefaultStore == [f \in StoreFields |-> [shared |-> TRUE, own |-> <<>>]]

\* data.f
Get(st, f) == IF st.data[f].shared THEN st.defaults[f] ELSE st.data[f].own

\* A change of the object data.f refers to (push, unshift, obj[k] = v,
\* delete obj[k], a field of one of its elements assigned).
Mutate(st, f, v) ==
  IF st.data[f].shared THEN [st EXCEPT !.defaults[f] = v]
  ELSE [st EXCEPT !.data[f].own = v]

\* data.f = v, for a new object v
Assign(st, f, v) == [st EXCEPT !.data[f] = OwnObject(v)]

\* this.data = { ...DEFAULT_STORE }
clear(st) == [st EXCEPT !.data = spreadDefaultStore]

\* init(): what this.data becomes.  `found` tells what readFile and
\* JSON.parse give: "missing" (they throw), "current" (a store with a
\* version and all its fields, here empty ones) or "legacy" (a store
\* without version that has only `designs`, here empty).
init(st, found) ==
  IF found = "missing" THEN [st EXCEPT !.data = spreadDefaultStore]
  ELSE IF found = "current" THEN [st EXCEPT !.data = [f \in StoreFields |-> OwnObject(<<>>)]]
  ELSE [st EXCEPT !.data = [spreadDefaultStore EXCEPT !["designs"] = OwnObject(<<>>)]]

\* getDesign(id): <<>> for null
getDesign(st, id) ==
  IF HasKey(Get(st, "designs"), id) THEN <<Lookup(Get(st, "designs"), id)>> ELSE <<>>

getAllDesigns(st) == Values(Get(st, "designs"))

getAllCollections(st) == Values(Get(st, "collections"))

\* getHistory(limit) with the default limit of 20
getHistory(st) == Slice(Get(st, "history"), 0, 20)

\* searchDesigns({ favoritesOnly: true })
getFavorites(st) == SelectSeq(getAllDesigns(st), LAMBDA d : d.favorite)

\* The three totals of getStats().
getStats(st) ==
  [totalDesigns |-> Len(Values(Get(st, "designs"))),
   totalFavorites |-> Len(Get(st, "favorites")),
   totalCollections |-> Len(Get(st, "collections"))]

\* options?.x ?? y, an unset option being <<>> and a set one <<value>>
OrElse(option, y) == IF option = <<>> THEN y ELSE option[1]

NoOptions == [favorite |-> <<>>, collections |-> <<>>]

\* What an operation gives: the store state after it, the value it
\* returns and whether it called this.save().
Outcome(st, ret, saved) == [st |-> st, ret |-> ret, saved |-> saved]

\* saveDesign(item, options).  Of a design the model keeps id, sourceUrl,
\* favorite and collections; `{ ...existing, ...item }` takes id and
\* sourceUrl from item.
saveDesign(st, item, options) ==
  LET designs == Get(st, "designs")
      same == {j \in 1..Len(designs) : designs[j].value.sourceUrl = item.sourceUrl}
  IN  IF same # {}
        THEN LET existing == designs[CHOOSE j \in same : \A k \in same : j <= k].value
                 updated == [id |-> item.id,
                             sourceUrl |-> item.sourceUrl,
                             favorite |-> OrElse(options.favorite, existing.favorite),
                             collections |-> OrElse(options.collections, existing.collections)]
             IN  Outcome(Mutate(st, "designs", Put(designs, existing.id, updated)),
                         updated, TRUE)
        ELSE LET stored == [id |-> item.id,
                            sourceUrl |-> item.sourceUrl,
                            favorite |-> OrElse(options.favorite, FALSE),
                            collections |-> OrElse(options.collections, <<>>)]
             IN  Outcome(Mutate(st, "designs", Put(designs, item.id, stored)), stored, TRUE)

\* collection.designIds = collection.designIds.filter(d => d !== id), for
\* every collection
dropFromCollections(collections, id) ==
  [j \in 1..Len(collections) |->
     [collections[j] EXCEPT !.value.designIds = Without(@, id)]]

deleteDesign(st, id) ==
  IF HasKey(Get(st, "designs"), id)
    THEN LET st1 == Mutate(st, "designs", Remove(Get(st, "designs"), id))
             st2 == Assign(st1, "favorites", Without(Get(st1, "favorites"), id))
             st3 == Mutate(st2, "collections",
                           dropFromCollections(Get(st2, "collections"), id))
         IN  Outcome(st3, TRUE, TRUE)
    ELSE Outcome(st, FALSE, FALSE)

toggleFavorite(st, id) ==
  IF ~HasKey(Get(st, "designs"), id) THEN Outcome(st, FALSE, FALSE)
  ELSE LET design == Lookup(Get(st, "designs"), id)
           flipped == [design EXCEPT !.favorite = ~design.favorite]
           st1 == Mutate(st, "designs", Put(Get(st, "designs"), id, flipped))
           favorites == Get(st1, "favorites")
           st2 == IF flipped.favorite
                    THEN IF ~Includes(favorites, id)
                           THEN Mutate(st1, "favorites", Append(favorites, id))
                           ELSE st1
                    ELSE Assign(st1, "favorites", Without(favorites, id))
       IN  Outcome(st2, flipped.favorite, TRUE)

\* createCollection: `id` stands for `col-${Date.now()}`.
createCollection(st, id) ==
  LET collection == [id |-> id, designIds |-> <<>>]
  IN  Outcome(Mutate(st, "collections", Put(Get(st, "collections"), id, collection)),
              collection, TRUE)

addToCollection(st, collectionId, designId) ==
  IF ~HasKey(Get(st, "collections"), collectionId) \/ ~HasKey(Get(st, "designs"), designId)
    THEN Outcome(st, FALSE, FALSE)
  ELSE LET collection == Lookup(Get(st, "collections"), collectionId)
           design == Lookup(Get(st, "designs"), designId)
           collection1 == IF ~Includes(collection.designIds, designId)
                            THEN [collection EXCEPT !.designIds = Append(@, designId)]
                            ELSE collection
           design1 == IF ~Includes(design.collections, collectionId)
                        THEN [design EXCEPT !.collections = Append(@, collectionId)]
                        ELSE design
           st1 == Mutate(st, "collections",
                         Put(Get(st, "collections"), collectionId, collection1))
           st2 == Mutate(st1, "designs", Put(Get(st1, "designs"), designId, design1))
       IN  Outcome(st2, TRUE, TRUE)

removeFromCollection(st, collectionId, designId) ==
  IF ~HasKey(Get(st, "collections"), collectionId) THEN Outcome(st, FALSE, FALSE)
  ELSE LET collection == Lookup(Get(st, "collections"), collectionId)
           collection1 == [collection EXCEPT !.designIds = Without(@, designId)]
           st1 == Mutate(st, "collections",
                         Put(Get(st, "collections"), collectionId, collection1))
           designs == Get(st1, "designs")
           st2 == IF HasKey(designs, designId)
                    THEN Mutate(st1, "designs",
                                Put(designs, designId,
                                    [Lookup(designs, designId)
                                       EXCEPT !.collections = Without(@, collectionId)]))
                    ELSE st1
       IN  Outcome(st2, TRUE, TRUE)

deleteCollection(st, id) ==
  IF ~HasKey(Get(st, "collections"), id) THEN Outcome(st, FALSE, FALSE)
  ELSE LET collection == Lookup(Get(st, "collections"), id)
           designs == Get(st, "designs")
           designs1 == [j \in 1..Len(designs) |->
                          IF Includes(collection.designIds, designs[j].key)
                            THEN [designs[j] EXCEPT !.value.collections = Without(@, id)]
                            ELSE designs[j]]
           st1 == Mutate(st, "designs", designs1)
           st2 == Mutate(st1, "collections", Remove(Get(st1, "collections"), id))
       IN  Outcome(st2, TRUE, TRUE)

\* addHistory: unshift, then keep the first 100 entries.
addHistory(st, entry) ==
  LET st1 == Mutate(st, "history", <<entry>> \o Get(st, "history"))
      st2 == IF Len(Get(st1, "history")) > HistoryLimit
               THEN Assign(st1, "history", Slice(Get(st1, "history"), 0, HistoryLimit))
               ELSE st1
  IN  Outcome(st2, entry, TRUE)

(***************************************************************************)
(* The DesignStore state machine: init(), then up to MaxOps operations on  *)
(* one store, and the debounce timer.                                      *)
(***************************************************************************)
DesignIds == {"d1", "d2"}

CollectionIds == {"c1"}

\* The DesignItems saved: two with the same sourceUrl and different ids.
Items ==
  {[id |-> "d1", sourceUrl |-> "u1"], [id |-> "d2", sourceUrl |-> "u2"],
   [id |-> "d2", sourceUrl |-> "u1"]}

SaveOptions ==
  {NoOptions, [NoOptions EXCEPT !.favorite = <<TRUE>>],
   [NoOptions EXCEPT !.favorite = <<FALSE>>],
   [NoOptions EXCEPT !.collections = <<<<"c1">>>>]}

\* Mutant of save: the timer set before is not cleared.
saveWithoutClear(pending, handle) == pending + 1

\* save(): clearTimeout of the timer this.saveDebounce refers to, then
\* setTimeout; the number of pending timers after it.
save(pending, handle) == (IF handle = "pending" THEN pending - 1 ELSE pending) + 1

\* JSON.stringify(data): the fields of the store by value.
stringify(st) == [f \in StoreFields |-> Get(st, f)]

\* The file init() reads: none, a current store with empty fields, or a
\* legacy one that has only `designs`.
fileFound(found) ==
  IF found = "missing" THEN <<>>
  ELSE IF found = "current" THEN <<[f \in StoreFields |-> <<>>]>>
  ELSE <<[designs |-> <<>>]>>

\* The store state the operations work on.
St == [data |-> storeData[1], defaults |-> defaultStore]

InitStore ==
  /\ EngineUnused
  /\ AgentUnused
  /\ FetchUnused
  /\ defaultStore = DEFAULT_STORE
  /\ storeData = <<>>
  /\ saveDebounce = "null"
  /\ timers = 0
  /\ memVersion = 0
  /\ fileVersion = -1
  /\ fileContent = <<>>
  /\ returned = <<>>
  /\ opsDone = 0

\* The common end of an operation: the new objects, the returned value
\* and, when it calls this.save(), the timer.
Finish(name, out) ==
  /\ storeData' = <<out.st.data>>
  /\ defaultStore' = out.st.defaults
  /\ returned' = [op |-> name, value |-> out.ret]
  /\ opsDone' = opsDone + 1
  /\ IF out.saved
       THEN /\ timers' = save(timers, saveDebounce)
            /\ saveDebounce' = "pending"
            /\ memVersion' = memVersion + 1
       ELSE UNCHANGED <<timers, saveDebounce, memVersion>>
  /\ UNCHANGED <<fileVersion, fileContent>>
  /\ UNCHANGED notStoreVars

\* init(): readFile finds no file, a current one or a legacy one; save()
\* is called unless the file is current.
StoreInit ==
  /\ storeData = <<>>
  /\ \E found \in {"missing", "current", "legacy"} :
       /\ storeData' = <<init([data |-> <<>>, defaults |-> defaultStore], found).data>>
       /\ fileVersion' = IF found = "missing" THEN -1 ELSE 0
       /\ fileContent' = fileFound(found)
       /\ memVersion' = IF found = "legacy" THEN 1 ELSE 0
       /\ IF found = "current"
            THEN UNCHANGED <<timers, saveDebounce>>
            ELSE /\ timers' = save(timers, saveDebounce)
                 /\ saveDebounce' = "pending"
       /\ returned' = [op |-> "init", value |-> found]
  /\ UNCHANGED <<defaultStore, opsDone>>
  /\ UNCHANGED notStoreVars

Ready == storeData # <<>> /\ opsDone < MaxOps

SaveDesign ==
  /\ Ready
  /\ \E item \in Items, options \in SaveOptions :
       Finish("saveDesign", saveDesign(St, item, options))

DeleteDesign ==
  /\ Ready
  /\ \E id \in DesignIds : Finish("deleteDesign", deleteDesign(St, id))

ToggleFavorite ==
  /\ Ready
  /\ \E id \in DesignIds : Finish("toggleFavorite", toggleFavorite(St, id))

CreateCollection ==
  /\ Ready
  /\ \E id \in CollectionIds : Finish("createCollection", createCollection(St, id))

AddToCollection ==
  /\ Ready
  /\ \E c \in CollectionIds, d \in DesignIds :
       Finish("addToCollection", addToCollection(St, c, d))

RemoveFromCollection ==
  /\ Ready
  /\ \E c \in CollectionIds, d \in DesignIds :
       Finish("removeFromCollection", removeFromCollection(St, c, d))

DeleteCollection ==
  /\ Ready
  /\ \E id \in CollectionIds : Finish("deleteCollection", deleteCollection(St, id))

AddHistory ==
  /\ Ready
  /\ Finish("addHistory", addHistory(St, "scout"))

Clear ==
  /\ Ready
  /\ Finish("clear", Outcome(clear(St), "void", TRUE))

\* flush(): the pending timer is cleared and the data written.
Flush ==
  /\ Ready
  /\ timers' = IF saveDebounce = "pending" THEN timers - 1 ELSE timers
  /\ saveDebounce' = IF saveDebounce = "null" THEN "null" ELSE "cleared"
  /\ fileVersion' = memVersion
  /\ fileContent' = <<stringify(St)>>
  /\ returned' = [op |-> "flush", value |-> "void"]
  /\ opsDone' = opsDone + 1
  /\ UNCHANGED <<storeData, defaultStore, memVersion>>
  /\ UNCHANGED notStoreVars

\* A pending timer fires: its callback writes the data as it is now.
TimerFires ==
  /\ timers > 0
  /\ \/ /\ saveDebounce = "pending"
        /\ saveDebounce' = "fired"
     \/ /\ timers > (IF saveDebounce = "pending" THEN 1 ELSE 0)
        /\ UNCHANGED saveDebounce
  /\ timers' = timers - 1
  /\ fileVersion' = memVersion
  /\ fileContent' = <<stringify(St)>>
  /\ UNCHANGED <<storeData, defaultStore, memVersion, returned, opsDone>>
  /\ UNCHANGED notStoreVars

NextStore ==
  \/ StoreInit
  \/ SaveDesign
  \/ DeleteDesign
  \/ ToggleFavorite
  \/ CreateCollection
  \/ AddToCollection
  \/ RemoveFromCollection
  \/ DeleteCollection
  \/ AddHistory
  \/ Clear
  \/ Flush
  \/ TimerFires

SpecStore == InitStore /\ [][NextStore]_vars

(***************************************************************************)
(* Properties of the DesignStore.                                          *)
(***************************************************************************)
\* The operation `name` has just returned.
JustDone(name) == returned # <<>> /\ returned.op = name

\* C22: after clear() the store is empty whatever preceded it:
\* getAllDesigns(), getAllCollections() and getHistory() are empty and
\* getStats() reports 0 designs, 0 favorites and 0 collections.
C22_ClearEmptiesTheStore ==
  JustDone("clear")
    => /\ getAllDesigns(St) = <<>>
       /\ getAllCollections(St) = <<>>
       /\ getHistory(St) = <<>>
       /\ getStats(St).totalDesigns = 0
       /\ getStats(St).totalFavorites = 0
       /\ getStats(St).totalCollections = 0

\* A store on which only saveDesign, toggleFavorite and deleteDesign are
\* called.
NextFavorites ==
  \/ StoreInit
  \/ SaveDesign
  \/ ToggleFavorite
  \/ DeleteDesign

SpecFavorites == InitStore /\ [][NextFavorites]_vars

\* The ids of the stored designs whose favorite flag is true.
FlaggedIds(st) ==
  {getAllDesigns(st)[j].id : j \in {k \in 1..Len(getAllDesigns(st)) :
                                      getAllDesigns(st)[k].favorite}}

\* C23: after any sequence of saveDesign, toggleFavorite and deleteDesign
\* the favorites list holds exactly the ids of the stored designs whose
\* favorite flag is true, each once, so getStats().totalFavorites =
\* getFavorites().length.
C23_FavoritesListMatchesFlags ==
  storeData # <<>>
    => LET favorites == Get(St, "favorites")
       IN  /\ {favorites[j] : j \in 1..Len(favorites)} = FlaggedIds(St)
           /\ \A a, b \in 1..Len(favorites) : a # b => favorites[a] # favorites[b]
           /\ getStats(St).totalFavorites = Len(getFavorites(St))

\* A store on which only the operations on designs and collections are
\* called.
NextCollections ==
  \/ StoreInit
  \/ SaveDesign
  \/ DeleteDesign
  \/ CreateCollection
  \/ AddToCollection
  \/ RemoveFromCollection
  \/ DeleteCollection

SpecCollections == InitStore /\ [][NextCollections]_vars

\* C24: membership is consistent in both directions: a design id is in
\* the designIds of collection c iff c is in the collections list of the
\* design stored under that id, and every id on either side names a
\* stored design or an existing collection.
C24_MembershipBothWays ==
  storeData # <<>>
    => LET designs == Get(St, "designs")
           collections == Get(St, "collections")
       IN  /\ \A j \in 1..Len(collections) :
                \A k \in 1..Len(collections[j].value.designIds) :
                  LET d == collections[j].value.designIds[k]
                  IN  /\ HasKey(designs, d)
                      /\ Includes(Lookup(designs, d).collections, collections[j].key)
           /\ \A j \in 1..Len(designs) :
                \A k \in 1..Len(designs[j].value.collections) :
                  LET c == designs[j].value.collections[k]
                  IN  /\ HasKey(collections, c)
                      /\ Includes(Lookup(collections, c).designIds, designs[j].key)

\* A store on which only saveDesign is called.
NextSaves == StoreInit \/ SaveDesign

SpecSaves == InitStore /\ [][NextSaves]_vars

\* C25: every stored design is stored under its own id, no two stored
\* designs share a sourceUrl, and getDesign(r.id) returns the value r
\* that saveDesign returned, also when the item's sourceUrl matches a
\* stored design with another id.
C25_StoredUnderOwnId ==
  storeData # <<>>
    => LET designs == Get(St, "designs")
       IN  /\ \A j \in 1..Len(designs) : designs[j].value.id = designs[j].key
           /\ \A a, b \in 1..Len(designs) :
                a # b => designs[a].value.sourceUrl # designs[b].value.sourceUrl
           /\ JustDone("saveDesign")
                => getDesign(St, returned.value.id) = <<returned.value>>

(***************************************************************************)
(* Debounced persistence.                                                  *)
(***************************************************************************)
\* Timers fire: a timer that setTimeout has set and nothing has cleared
\* runs its callback after its 100 ms.
SpecStoreFair == SpecStore /\ WF_vars(TimerFires)

\* The file holds the data as it is in memory.
Written == fileContent = <<stringify(St)>>

\* An operation that changes the data in memory.
Mutation == storeData # <<>> /\ stringify(St)' # stringify(St)

\* C26: at most one save timer is pending; each mutation leaves exactly
\* one pending timer, the one this.saveDebounce refers to; flush() leaves
\* no timer and the current data in the file; and once the operations
\* have stopped the file ends up holding the final data in memory.
C26_DebouncedPersistence ==
  /\ [](timers <= 1)
  /\ [][Mutation => timers' = 1 /\ saveDebounce' = "pending"]_vars
  /\ [](JustDone("flush") => timers = 0 /\ Written)
  /\ <>[](storeData # <<>> => timers = 0 /\ Written)

\* A mutation re-armed a pending timer, and later the timer has fired
\* and written the data.
C26_Witness ==
  /\ storeData # <<>>
  /\ opsDone >= 2
  /\ memVersion >= 2
  /\ saveDebounce = "fired"
  /\ timers = 0
  /\ Written
  /\ stringify(St) # [f \in StoreFields |-> <<>>]

(***************************************************************************)
(* DesignScoutAgent: storage operations started on one agent.  Each is an  *)
(* async method; between two awaits it runs alone, at an await the others  *)
(* may run.                                                                *)
(***************************************************************************)
\* Number of storage operations started on the agent.
MaxTasks == 2

\* Largest number of items the collectors return.
MaxItems == 2

Tasks == 1..MaxTasks

\* The storage operations: scout is scout({ saveToStore: true }).
StorageOperations == {"searchStored", "toggleFavorite", "getStats", "scout"}

InitAgent ==
  /\ EngineUnused
  /\ StoreUnused
  /\ FetchUnused
  /\ storeInitialized = FALSE
  /\ initCalls = 0
  /\ tasks = [t \in Tasks |-> [method |-> "none", at |-> "idle"]]
  /\ collectedItems = 0
  /\ active = <<>>
  /\ events = <<>>
  /\ results = <<>>

At(t, place) == tasks[t].at = place

Goto(t, place) == tasks' = [tasks EXCEPT ![t].at = place]

\* The method is called: scout first awaits the collectors, the others
\* go straight to `await this.initStore()`.
StartOperation(t) ==
  /\ At(t, "idle")
  /\ \E m \in StorageOperations :
       tasks' = [tasks EXCEPT ![t] = [method |-> m,
                                      at |-> IF m = "scout" THEN "collect" ELSE "initStore"]]
  /\ UNCHANGED <<storeInitialized, initCalls>>
  /\ UNCHANGED pipelineVars
  /\ UNCHANGED notAgentVars

\* scout: the collectors have answered and this.collectedItems is
\* assigned; options.saveToStore is set.
Collected(t) ==
  /\ At(t, "collect")
  /\ Goto(t, "initStore")
  /\ \E found \in 0..MaxItems : collectedItems' = found
  /\ UNCHANGED <<storeInitialized, initCalls, active, events, results>>
  /\ UNCHANGED notAgentVars

\* initStore() up to its await: the flag is read and, when it is false,
\* this.store.init() is invoked.
AgentInitStore(t) ==
  /\ At(t, "initStore")
  /\ IF ~storeInitialized
       THEN /\ initCalls' = initCalls + 1
            /\ Goto(t, "awaitInit")
       ELSE /\ Goto(t, "store")
            /\ UNCHANGED initCalls
  /\ UNCHANGED storeInitialized
  /\ UNCHANGED pipelineVars
  /\ UNCHANGED notAgentVars

\* store.init() resolves: initStore() sets the flag and returns.
InitResolves(t) ==
  /\ At(t, "awaitInit")
  /\ storeInitialized' = TRUE
  /\ Goto(t, "store")
  /\ UNCHANGED initCalls
  /\ UNCHANGED pipelineVars
  /\ UNCHANGED notAgentVars

\* store.init() rejects (fs.mkdir fails): the operation rejects, the flag
\* stays as it is.
InitRejects(t) ==
  /\ At(t, "awaitInit")
  /\ Goto(t, "rejected")
  /\ UNCHANGED <<storeInitialized, initCalls>>
  /\ UNCHANGED pipelineVars
  /\ UNCHANGED notAgentVars

\* The call into the store after initStore() has returned.
StoreOperation(t) ==
  /\ At(t, "store")
  /\ Goto(t, "done")
  /\ UNCHANGED <<storeInitialized, initCalls>>
  /\ UNCHANGED pipelineVars
  /\ UNCHANGED notAgentVars

NextAgent ==
  \E t \in Tasks :
    \/ StartOperation(t)
    \/ Collected(t)
    \/ AgentInitStore(t)
    \/ InitResolves(t)
    \/ InitRejects(t)
    \/ StoreOperation(t)

SpecAgent == InitAgent /\ [][NextAgent]_vars

\* C27: whatever the interleaving of the storage operations started on
\* one agent, DesignStore.init() is invoked at most once.
C27_InitAtMostOnce == initCalls <= 1

(***************************************************************************)
(* BaseCollector.fetchWithRetry: one call.                                 *)
(***************************************************************************)
\* Largest retries argument.
MaxRetries == 3

\* What one `await fetch(...)` ends in: a response with ok, a 429, a
\* response with another status, or a rejection (network error).
FetchOutcomes == {"ok", "429", "500", "networkError"}

RECURSIVE Pow2(_)
Pow2(n) == IF n = 0 THEN 1 ELSE 2 * Pow2(n - 1)

\* Mutant of backoff: the wait grows by one second per attempt.
backoffLinear(index) == (index + 1) * 1000

\* Math.pow(2, i) * 1000
backoff(index) == Pow2(index) * 1000

InitFetch ==
  /\ EngineUnused
  /\ StoreUnused
  /\ AgentUnused
  /\ retries \in 0..MaxRetries
  /\ retryIndex = 0
  /\ fetchPc = "loop"
  /\ responses = <<>>
  /\ delays = <<>>
  /\ fetchResult = <<>>

\* for (let i = 0; i < retries; i++) ... throw new Error('Max retries exceeded')
LoopTest ==
  /\ fetchPc = "loop"
  /\ IF retryIndex < retries
       THEN /\ fetchPc' = "fetch"
            /\ UNCHANGED fetchResult
       ELSE /\ fetchPc' = "thrown"
            /\ fetchResult' = <<"Max retries exceeded">>
  /\ UNCHANGED <<retries, retryIndex, responses, delays>>
  /\ UNCHANGED notFetchVars

\* The body of the try and the test of the catch, up to the next await.
Fetch ==
  /\ fetchPc = "fetch"
  /\ \E r \in FetchOutcomes :
       /\ responses' = Append(responses, r)
       /\ IF r = "ok"
            THEN /\ fetchPc' = "returned"
                 /\ fetchResult' = <<"response">>
            ELSE IF r = "429"
              THEN /\ fetchPc' = "delay"
                   /\ UNCHANGED fetchResult
              ELSE IF retryIndex = retries - 1
                THEN /\ fetchPc' = "thrown"
                     /\ fetchResult' = <<IF r = "500" THEN "HTTP 500" ELSE "network error">>
                ELSE /\ fetchPc' = "delay"
                     /\ UNCHANGED fetchResult
  /\ UNCHANGED <<retries, retryIndex, delays>>
  /\ UNCHANGED notFetchVars

\* await this.delay(Math.pow(2, i) * 1000), then i++
Delay ==
  /\ fetchPc = "delay"
  /\ delays' = Append(delays, backoff(retryIndex))
  /\ retryIndex' = retryIndex + 1
  /\ fetchPc' = "loop"
  /\ UNCHANGED <<retries, responses, fetchResult>>
  /\ UNCHANGED notFetchVars

NextFetch == LoopTest \/ Fetch \/ Delay

SpecFetch == InitFetch /\ [][NextFetch]_vars

\* Every fetch settles and every timer of delay fires.
SpecFetchFair == SpecFetch /\ WF_vars(NextFetch)

Settled == fetchPc \in {"returned", "thrown"}

\* C28: the call settles after at most `retries` attempts; it returns
\* only after a response with ok and throws otherwise; when attempt i+1
\* starts it has waited i times, the k-th wait being 2^(k-1) seconds; and
\* a 429 on the last attempt ends in 'Max retries exceeded'.
C28_FetchWithRetryTerminates ==
  /\ <>Settled
  /\ [](Len(responses) <= retries)
  /\ [](fetchPc = "returned"
          <=> (responses # <<>> /\ responses[Len(responses)] = "ok"))
  /\ [](fetchPc = "fetch" => Len(responses) = retryIndex /\ Len(delays) = retryIndex)
  /\ [](delays = [k \in 1..Len(delays) |-> Pow2(k - 1) * 1000])
  /\ [](Settled /\ Len(responses) = retries /\ retries > 0
          /\ responses[retries] = "429"
          => fetchResult = <<"Max retries exceeded">>)

\* Three attempts, the last one a 429, each followed by its wait.
C28_Witness ==
  /\ fetchPc = "thrown"
  /\ retries = 3
  /\ responses = <<"500", "networkError", "429">>
  /\ delays = <<1000, 2000, 4000>>
  /\ fetchResult = <<"Max retries exceeded">>

(***************************************************************************)
(* DesignScoutAgent: the pipeline methods, called one after the other.     *)
(***************************************************************************)
\* Number of calls made on the agent.
MaxCalls == 3

NoDesignsToAnalyze == "No designs to analyze. Run scout() first."

NoDesignsCollected == "No designs collected. Run scout() first."

\* The arguments and answers of a call that the methods look at: the
\* number of items the collectors return (-1: not a scout), the `items`
\* argument of analyze (<<>> for undefined, <<n>> for an array of n
\* items) and options.generateOutputs !== false.
NoInput == [found |-> -1, items |-> <<>>, generateOutputs |-> FALSE]

\* analyze(items): `items || this.collectedItems`, an array being truthy
\* even when it is empty.
analyze(collected, items) ==
  LET targetItems == IF items # <<>> THEN items[1] ELSE collected
  IN  IF targetItems = 0
        THEN [thrown |-> <<NoDesignsToAnalyze>>, entered |-> <<"analyze">>]
        ELSE [thrown |-> <<>>, entered |-> <<"analyze", "analyzeDesigns", "identifyTrends">>]

\* Mutant of propose: no test of this.collectedItems.length.
proposeUnguarded(collected, generateOutputs) ==
  [thrown |-> <<>>,
   entered |-> <<"propose", "generateProposal">>
                 \o (IF generateOutputs THEN <<"generateAllOutputs">> ELSE <<>>)]

\* propose(options)
propose(collected, generateOutputs) ==
  IF collected = 0
    THEN [thrown |-> <<NoDesignsCollected>>, entered |-> <<"propose">>]
    ELSE [thrown |-> <<>>,
          entered |-> <<"propose", "generateProposal">>
                        \o (IF generateOutputs THEN <<"generateAllOutputs">> ELSE <<>>)]

\* What a call that has thrown or returned settles with.
Settle(method, input, thrown) ==
  [method |-> method, input |-> input,
   outcome |-> IF thrown = <<>> THEN "resolved" ELSE thrown[1]]

\* The caller awaits each call before the next one.
CanCall == active = <<>> /\ Len(results) < MaxCalls

\* scout(options) without saveToStore
Scout ==
  /\ CanCall
  /\ \E found \in 0..MaxItems :
       /\ collectedItems' = found
       /\ results' = Append(results, Settle("scout", [NoInput EXCEPT !.found = found], <<>>))
  /\ events' = <<"scout">>
  /\ UNCHANGED <<active, storeInitialized, initCalls, tasks>>
  /\ UNCHANGED notAgentVars

Analyze ==
  /\ CanCall
  /\ \E items \in {<<>>} \cup {<<n>> : n \in 0..MaxItems} :
       LET out == analyze(collectedItems, items)
       IN  /\ events' = out.entered
           /\ results' = Append(results,
                Settle("analyze", [NoInput EXCEPT !.items = items], out.thrown))
  /\ UNCHANGED <<collectedItems, active, storeInitialized, initCalls, tasks>>
  /\ UNCHANGED notAgentVars

Propose ==
  /\ CanCall
  /\ \E generateOutputs \in BOOLEAN :
       LET out == propose(collectedItems, generateOutputs)
       IN  /\ events' = out.entered
           /\ results' = Append(results,
                Settle("propose", [NoInput EXCEPT !.generateOutputs = generateOutputs],
                       out.thrown))
  /\ UNCHANGED <<collectedItems, active, storeInitialized, initCalls, tasks>>
  /\ UNCHANGED notAgentVars

ClearCollectedItems ==
  /\ CanCall
  /\ collectedItems' = 0
  /\ events' = <<>>
  /\ results' = Append(results, Settle("clearCollectedItems", NoInput, <<>>))
  /\ UNCHANGED <<active, storeInitialized, initCalls, tasks>>
  /\ UNCHANGED notAgentVars

\* run(scoutOptions, proposalOptions) up to the await inside scout
Run ==
  /\ CanCall
  /\ \E generateOutputs \in BOOLEAN :
       active' = <<[input |-> [NoInput EXCEPT !.generateOutputs = generateOutputs],
                    at |-> "scout"]>>
  /\ events' = <<"scout">>
  /\ UNCHANGED <<collectedItems, results, storeInitialized, initCalls, tasks>>
  /\ UNCHANGED notAgentVars

\* run: the collectors answer, scout assigns this.collectedItems and
\* returns.
RunScoutReturns ==
  /\ active # <<>>
  /\ active[1].at = "scout"
  /\ \E found \in 0..MaxItems :
       /\ collectedItems' = found
       /\ active' = <<[active[1] EXCEPT !.input.found = found, !.at = "analyze"]>>
  /\ UNCHANGED <<events, results, storeInitialized, initCalls, tasks>>
  /\ UNCHANGED notAgentVars

\* run: await this.analyze()
RunAnalyze ==
  /\ active # <<>>
  /\ active[1].at = "analyze"
  /\ LET out == analyze(collectedItems, <<>>)
     IN  /\ events' = events \o out.entered
         /\ IF out.thrown # <<>>
              THEN /\ results' = Append(results, Settle("run", active[1].input, out.thrown))
                   /\ active' = <<>>
              ELSE /\ active' = <<[active[1] EXCEPT !.at = "propose"]>>
                   /\ UNCHANGED results
  /\ UNCHANGED <<collectedItems, storeInitialized, initCalls, tasks>>
  /\ UNCHANGED notAgentVars

\* run: await this.propose(proposalOptions), then the return
RunPropose ==
  /\ active # <<>>
  /\ active[1].at = "propose"
  /\ LET out == propose(collectedItems, active[1].input.generateOutputs)
     IN  /\ events' = events \o out.entered
         /\ results' = Append(results, Settle("run", active[1].input, out.thrown))
  /\ active' = <<>>
  /\ UNCHANGED <<collectedItems, storeInitialized, initCalls, tasks>>
  /\ UNCHANGED notAgentVars

NextPipeline ==
  \/ Scout
  \/ Analyze
  \/ Propose
  \/ ClearCollectedItems
  \/ Run
  \/ RunScoutReturns
  \/ RunAnalyze
  \/ RunPropose

SpecPipeline == InitAgent /\ [][NextPipeline]_vars

\* The call that settled last, and the step in which `method` settles.
LastResult == results[Len(results)]

Settles(method) ==
  /\ Len(results') = Len(results) + 1
  /\ results'[Len(results')].method = method

Generators(entered) ==
  SelectSeq(entered, LAMBDA e : e \in {"generateProposal", "generateAllOutputs"})

PipelineSteps(entered) ==
  SelectSeq(entered, LAMBDA e : e \in {"scout", "analyze", "propose"})

IsPrefix(s, t) == Len(s) <= Len(t) /\ \A k \in 1..Len(s) : s[k] = t[k]

\* C29: propose() on an agent without collected items throws and enters
\* no generator; analyze() throws when it has no items; run() enters
\* scout, analyze and propose in this order, the generators only after
\* propose; and a run() whose scout found nothing rejects with no
\* generator entered.
C29_NeverProposesFromNothing ==
  /\ [][Settles("propose") /\ collectedItems = 0
          => /\ results'[Len(results')].outcome = NoDesignsCollected
             /\ Generators(events') = <<>>]_vars
  /\ [][Settles("analyze")
          /\ (IF results'[Len(results')].input.items # <<>>
                THEN results'[Len(results')].input.items[1]
                ELSE collectedItems) = 0
          => results'[Len(results')].outcome = NoDesignsToAnalyze]_vars
  /\ [](active # <<>> \/ (results # <<>> /\ LastResult.method = "run")
          => /\ IsPrefix(PipelineSteps(events), <<"scout", "analyze", "propose">>)
             /\ Generators(events) # <<>>
                  => \E k \in 1..Len(events) :
                       /\ events[k] = "propose"
                       /\ \A j \in 1..k : events[j] \notin {"generateProposal", "generateAllOutputs"})
  /\ [](results # <<>> /\ LastResult.method = "run" /\ LastResult.input.found = 0
          => /\ LastResult.outcome = NoDesignsToAnalyze
             /\ Generators(events) = <<>>)

\* After a scout with two items, a run() whose scout found nothing has
\* rejected and the propose() after it has thrown.
C29_Witness ==
  /\ Len(results) = 3
  /\ results[1].method = "scout" /\ results[1].input.found = 2
  /\ results[2].method = "run" /\ results[2].input.found = 0
  /\ results[2].outcome = NoDesignsToAnalyze
  /\ results[3].method = "propose" /\ results[3].outcome = NoDesignsCollected
  /\ events = <<"propose">>

====
